---- MODULE Spec2Model ----
(***************************************************************************)
(* Cross-account file relocation of drive-vault-connect: DriveService      *)
(* (moveFileWithPath, moveFilesInBatch, selectBestBackupAccount,           *)
(* checkStorageAndAutoMove) and the token check of GoogleAuthService,      *)
(* modelled over an abstract remote file store and account table.          *)
(***************************************************************************)
EXTENDS Integers, Sequences, FiniteSets, TLC

\* ------------------------------------------------------------------ bounds
\* at most this many remote responses of one scenario are failures
MaxFaults == 2
\* largest number of file ids handed to one moveFilesInBatch call
MaxBatch == 2
\* lifetime (minutes) of a token handed out by the refresh endpoint
RefreshLifetime == 60
\* largest quota figure (abstract units) stored in an account record
MaxQuota == 2

\* ------------------------------------------------------- program constants
FiveMinutes == 5
AutoMoveLimit == 5
ThresholdPercent == 10

\* JavaScript `undefined` as it ends up in a name, an id or a type tag
Undef == "undefined"
\* a node whose `parents` field is absent
NoParent == "none"
\* the account root sentinel
RootId == "root"
FolderMime == "application/vnd.google-apps.folder"
\* what the remote store names a node uploaded without a name
Untitled == "Untitled"
\* the type tag the remote store gives a node uploaded without one
DefaultMime == "application/octet-stream"
\* the body of a non-2xx response, as the bytes a download yields
ErrBody == "errorBody"
\* a null column of the account table
Null == -1

Procs == {1, 2}
AccountIds == {"P", "B1", "B2"}
FreshIds == <<"n1", "n2", "n3", "n4", "n5", "n6", "n7", "n8", "n9", "n10", "n11",
             "n12">>

VARIABLES
    nodes,      \* the remote file store: the set of node records of all accounts
    nodes0,     \* the store as it was when the operation under study was called
    nextId,     \* index into FreshIds of the next node id the store hands out
    accounts,   \* google_accounts rows, keyed by google_account_id
    now,        \* the clock, in minutes
    mv,         \* per caller: the locals of its moveFileWithPath invocation
    faults,     \* number of failing remote responses so far
    called,     \* the kinds of remote call issued so far
    batch,      \* the locals of moveFilesInBatch
    sel,        \* the locals and results of selectBestBackupAccount
    auto,       \* the locals of checkStorageAndAutoMove
    cache,      \* the drive_files rows: the ids of the files synced last
    conn,       \* the locals of exchangeCodeForTokens and the connects made
    sp,         \* per caller: the locals of its setPrimaryAccount invocation
    perms,      \* the permissions granted on nodes of the store: <<node, grantee>>
    tk,         \* the ensureValidToken call under study and its result
    rp,         \* the recreateFolderPath calls made and their results
    dt,         \* the DriveTree component: folder-create submissions and the last toast
    au          \* the promise of the connectAccount attempt, its popup and its handlers

\* the variables of the account service, of the path recreator's history,
\* of the tree view and of the authorization popup
acctVars == <<conn, sp, perms, tk, rp, dt, au>>

vars == <<nodes, nodes0, nextId, accounts, now, mv, faults, called, batch, sel, auto, cache,
          acctVars>>

\* ----------------------------------------------------------- remote store
Node(id, acct, name, mime, content, size, parent) ==
    [id |-> id, acct |-> acct, name |-> name, mimeType |-> mime,
     content |-> content, size |-> size, parent |-> parent]

NodeOf(id) == CHOOSE n \in nodes : n.id = id

\* files.list?q=name='..' and '..' in parents [and mimeType='folder']
QueryByName(name, parentId) ==
    {n \in nodes : n.name = name /\ n.parent = parentId}
QueryFolderByName(name, parentId) ==
    {n \in QueryByName(name, parentId) : n.mimeType = FolderMime}

\* JSON.stringify drops an undefined name / mimeType: the store fills them in
StoredName(name) == IF name = Undef THEN Untitled ELSE name
StoredMime(mime) == IF mime = Undef THEN DefaultMime ELSE mime

\* The responses a remote call can get: a valid request succeeds unless the
\* fault budget is spent on it; a request naming a node that does not exist
\* is answered with an error body.
Responses(valid) ==
    IF valid
    THEN {"ok"} \cup (IF faults < MaxFaults THEN {"httpErr", "reject"} ELSE {})
    ELSE {"httpErr"}
Spend(o, valid) == IF o # "ok" /\ valid THEN faults + 1 ELSE faults

\* --------------------------------------------------------- account table
Account(type, status, total, used, shared, exp) ==
    [account_type |-> type, status |-> status, total_storage |-> total,
     used_storage |-> used, shared_folder_id |-> shared, token_expires_at |-> exp]

OrZero(x) == IF x = Null THEN 0 ELSE x

\* the expiry test that lets a token exactly five minutes from expiry pass
isTokenExpired_Strict(expiresAt) == expiresAt < now + FiveMinutes

\* googleAuth.ts lines 533-538
isTokenExpired(expiresAt) == expiresAt <= now + FiveMinutes

\* ------------------------------------------------------ moveFileWithPath
IdleMove ==
    [pc |-> "idle", fileId |-> Undef, src |-> "P", tgt |-> "B1",
     targetFolderId |-> Undef, maintainPath |-> FALSE,
     name |-> Undef, mimeType |-> Undef, parent |-> NoParent, blob |-> Undef,
     path |-> <<>>, cur |-> Undef, k |-> 0, curT |-> Undef, final |-> Undef,
     blobSize |-> 0, err |-> "none", failedAt |-> {}, uploaded |-> Undef,
     photo |-> FALSE]

Finished(p) == mv[p].pc \in {"done", "failed"}

Throw(m, kind) == [m EXCEPT !.pc = "failed", !.err = kind]
Failed(m, step) == [m EXCEPT !.failedAt = @ \cup {step}]

\* GoogleAuthService.ensureValidToken(a) returns a token: the stored one
\* when it is not about to expire (line 573), else a refreshed one that is
\* written to the account row first (lines 554-560)
TokenReturns(a) ==
    IF ~isTokenExpired(accounts[a].token_expires_at)
    THEN UNCHANGED <<accounts, faults, called>>
    ELSE /\ called' = called \cup {"refresh"}
         /\ faults' = faults
         /\ accounts' = [accounts EXCEPT
                           ![a].token_expires_at = now + RefreshLifetime]

\* the refresh failure that leaves the account row as it was
TokenThrows_NoFlag(a) ==
    /\ isTokenExpired(accounts[a].token_expires_at)
    /\ faults < MaxFaults
    /\ called' = called \cup {"refresh"}
    /\ faults' = faults + 1
    /\ accounts' = accounts

\* ensureValidToken(a) throws: the refresh failed and the account row is
\* marked expired (lines 561-570)
TokenThrows(a) ==
    /\ isTokenExpired(accounts[a].token_expires_at)
    /\ faults < MaxFaults
    /\ called' = called \cup {"refresh"}
    /\ faults' = faults + 1
    /\ accounts' = [accounts EXCEPT ![a].status = "expired"]

\* ensureValidToken(a) inside caller p's move; `next` is the caller's record
\* once the token is returned, `step` names the call.
EnsureValidToken(p, a, next, step) ==
    \/ TokenReturns(a) /\ mv' = [mv EXCEPT ![p] = next]
    \/ TokenThrows(a) /\ mv' = [mv EXCEPT ![p] =
                                   Throw(Failed(mv[p], step), "credential")]

\* line 253
MoveTokenSource(p) ==
    /\ mv[p].pc = "tokSrc"
    /\ EnsureValidToken(p, mv[p].src, [mv[p] EXCEPT !.pc = "tokTgt"], "refresh")
    /\ UNCHANGED <<nodes, nodes0, nextId, now, batch, sel, auto, cache, acctVars>>

\* line 254
MoveTokenTarget(p) ==
    /\ mv[p].pc = "tokTgt"
    /\ EnsureValidToken(p, mv[p].tgt, [mv[p] EXCEPT !.pc = "meta"], "refresh")
    /\ UNCHANGED <<nodes, nodes0, nextId, now, batch, sel, auto, cache, acctVars>>

\* the metadata request made without `name` in its field selector
MetadataOf_NoName(o, n) ==
    IF o = "ok"
    THEN [name |-> Undef, mimeType |-> n.mimeType, parent |-> n.parent]
    ELSE [name |-> Undef, mimeType |-> Undef, parent |-> NoParent]

\* what `await response.json()` of files.get yields (no response.ok check)
MetadataOf(o, n) ==
    IF o = "ok"
    THEN [name |-> n.name, mimeType |-> n.mimeType, parent |-> n.parent]
    ELSE [name |-> Undef, mimeType |-> Undef, parent |-> NoParent]

\* what `await downloadResponse.blob()` yields (no response.ok check)
BlobOf(o, n) == IF o = "ok" THEN n.content ELSE ErrBody
BlobSizeOf(o, n) == IF o = "ok" THEN n.size ELSE 1

Readable(id, acct) == \E n \in nodes : n.id = id /\ n.acct = acct

\* lines 256-261
MoveGetMetadata(p) ==
    LET m == mv[p]
        valid == Readable(m.fileId, m.src)
    IN  /\ m.pc = "meta"
        /\ \E o \in Responses(valid) :
            /\ faults' = Spend(o, valid)
            /\ IF o = "reject"
               THEN mv' = [mv EXCEPT ![p] = Throw(Failed(m, "meta"), "error")]
               ELSE LET d == MetadataOf(o, IF valid THEN NodeOf(m.fileId) ELSE m)
                        m1 == IF o = "ok" THEN m ELSE Failed(m, "meta")
                    IN  mv' = [mv EXCEPT ![p] =
                                 [m1 EXCEPT !.name = d.name, !.mimeType = d.mimeType,
                                            !.parent = d.parent, !.pc = "download"]]
        /\ called' = called \cup {"meta"}
        /\ UNCHANGED <<nodes, nodes0, nextId, accounts, now, batch, sel, auto, cache, acctVars>>

\* the branch that recreates the path whenever the file has a parent
AfterDownload_IgnoresFlag(m) ==
    IF m.parent # NoParent
    THEN [m EXCEPT !.pc = "walk", !.cur = m.parent, !.path = <<>>]
    ELSE [m EXCEPT !.pc = "unique", !.final = m.targetFolderId]

\* lines 270-281: where the move goes once the bytes are held
AfterDownload(m) ==
    IF m.maintainPath /\ m.parent # NoParent
    THEN [m EXCEPT !.pc = "walk", !.cur = m.parent, !.path = <<>>]
    ELSE [m EXCEPT !.pc = "unique", !.final = m.targetFolderId]

\* lines 263-268
MoveDownload(p) ==
    LET m == mv[p]
        valid == Readable(m.fileId, m.src)
    IN  /\ m.pc = "download"
        /\ \E o \in Responses(valid) :
            /\ faults' = Spend(o, valid)
            /\ IF o = "reject"
               THEN mv' = [mv EXCEPT ![p] = Throw(Failed(m, "download"), "error")]
               ELSE LET n == IF valid THEN NodeOf(m.fileId) ELSE m
                        m1 == IF o = "ok" THEN m ELSE Failed(m, "download")
                    IN  mv' = [mv EXCEPT ![p] =
                                 AfterDownload([m1 EXCEPT !.blob = BlobOf(o, n),
                                                          !.blobSize = BlobSizeOf(o, n)])]
        /\ called' = called \cup {"download"}
        /\ UNCHANGED <<nodes, nodes0, nextId, accounts, now, batch, sel, auto, cache, acctVars>>

\* line 506: the walk stops at an absent parent or at the root sentinel
WalkStops(parentId) == parentId = NoParent \/ parentId = RootId

\* getFolderPath, one iteration of its loop (lines 495-507)
MoveWalk(p) ==
    LET m == mv[p]
        valid == Readable(m.cur, m.src)
    IN  /\ m.pc = "walk"
        /\ \E o \in Responses(valid) :
            /\ faults' = Spend(o, valid)
            /\ IF o = "reject"
               THEN mv' = [mv EXCEPT ![p] = Throw(Failed(m, "walk"), "error")]
               ELSE LET d == MetadataOf(o, IF valid THEN NodeOf(m.cur) ELSE m)
                        m1 == IF o = "ok" THEN m ELSE Failed(m, "walk")
                        m2 == [m1 EXCEPT !.path = <<d.name>> \o @, !.cur = d.parent]
                    IN  mv' = [mv EXCEPT ![p] =
                                 IF WalkStops(d.parent)
                                 THEN [m2 EXCEPT !.pc = "find", !.k = 1,
                                                 !.curT = m.targetFolderId]
                                 ELSE m2]
        /\ called' = called \cup {"walk"}
        /\ UNCHANGED <<nodes, nodes0, nextId, accounts, now, batch, sel, auto, cache, acctVars>>

\* recreateFolderPath: the loop moves on to the next name, or returns (478-488)
AfterLevel(m, id) ==
    IF m.k = Len(m.path)
    THEN [m EXCEPT !.curT = id, !.final = id, !.pc = "unique"]
    ELSE [m EXCEPT !.curT = id, !.k = @ + 1, !.pc = "find"]

\* findFolderByName (512-520) and the branch on its result (481-485)
MoveFindFolder(p) ==
    LET m == mv[p]
        valid == Readable(m.curT, m.tgt)
        found == QueryFolderByName(m.path[m.k], m.curT)
    IN  /\ m.pc = "find"
        /\ \E o \in Responses(valid) :
            /\ faults' = Spend(o, valid)
            /\ IF o # "ok"
               THEN mv' = [mv EXCEPT ![p] = Throw(Failed(m, "find"), "error")]
               ELSE IF found # {}
                    THEN \E n \in found : mv' = [mv EXCEPT ![p] = AfterLevel(m, n.id)]
                    ELSE mv' = [mv EXCEPT ![p] = [m EXCEPT !.pc = "create"]]
        /\ called' = called \cup {"find"}
        /\ UNCHANGED <<nodes, nodes0, nextId, accounts, now, batch, sel, auto, cache, acctVars>>

\* createFolderInParent (522-540): no response.ok check, returns folder.id
MoveCreateFolder(p) ==
    LET m == mv[p]
        valid == Readable(m.curT, m.tgt)
        id == FreshIds[nextId]
    IN  /\ m.pc = "create"
        /\ nextId <= Len(FreshIds)
        /\ \E o \in Responses(valid) :
            /\ faults' = Spend(o, valid)
            /\ IF o = "ok"
               THEN /\ nodes' = nodes \cup {Node(id, m.tgt, StoredName(m.path[m.k]),
                                                 FolderMime, Undef, 0, m.curT)}
                    /\ nextId' = nextId + 1
                    /\ mv' = [mv EXCEPT ![p] = AfterLevel(m, id)]
               ELSE /\ UNCHANGED <<nodes, nextId>>
                    /\ mv' = [mv EXCEPT ![p] =
                                IF o = "reject"
                                THEN Throw(Failed(m, "create"), "error")
                                ELSE AfterLevel(Failed(m, "create"), Undef)]
        /\ called' = called \cup {"create"}
        /\ UNCHANGED <<nodes0, accounts, now, batch, sel, auto, cache, acctVars>>

\* the collision check made under a lock on the destination folder: it
\* waits while another caller that passed the check for the same name in the
\* same folder has not uploaded yet
MoveEnsureUnique_Locked(p) ==
    LET m == mv[p]
        valid == Readable(m.final, m.tgt)
    IN  /\ m.pc = "unique"
        /\ \A q \in Procs \ {p} :
              ~(mv[q].pc = "upload" /\ mv[q].name = m.name /\ mv[q].final = m.final)
        /\ \E o \in Responses(valid) :
            /\ faults' = Spend(o, valid)
            /\ mv' = [mv EXCEPT ![p] =
                        IF o # "ok" THEN Throw(Failed(m, "unique"), "error")
                        ELSE IF QueryByName(m.name, m.final) # {}
                             THEN Throw(m, "conflict")
                             ELSE [m EXCEPT !.pc = "upload"]]
        /\ called' = called \cup {"unique"}
        /\ UNCHANGED <<nodes, nodes0, nextId, accounts, now, batch, sel, auto, cache, acctVars>>

\* ensureUniqueFileName (542-555)
MoveEnsureUnique(p) ==
    LET m == mv[p]
        valid == Readable(m.final, m.tgt)
    IN  /\ m.pc = "unique"
        /\ \E o \in Responses(valid) :
            /\ faults' = Spend(o, valid)
            /\ mv' = [mv EXCEPT ![p] =
                        IF o # "ok" THEN Throw(Failed(m, "unique"), "error")
                        ELSE IF QueryByName(m.name, m.final) # {}
                             THEN Throw(m, "conflict")
                             ELSE [m EXCEPT !.pc = "upload"]]
        /\ called' = called \cup {"unique"}
        /\ UNCHANGED <<nodes, nodes0, nextId, accounts, now, batch, sel, auto, cache, acctVars>>

\* lines 286-308
MoveUpload(p) ==
    LET m == mv[p]
        valid == Readable(m.final, m.tgt)
        id == FreshIds[nextId]
    IN  /\ m.pc = "upload"
        /\ nextId <= Len(FreshIds)
        /\ \E o \in Responses(valid) :
            /\ faults' = Spend(o, valid)
            /\ IF o = "ok"
               THEN /\ nodes' = nodes \cup {Node(id, m.tgt, StoredName(m.name),
                                                 StoredMime(m.mimeType), m.blob,
                                                 m.blobSize, m.final)}
                    /\ nextId' = nextId + 1
                    /\ mv' = [mv EXCEPT ![p] =
                                [m EXCEPT !.pc = IF m.photo THEN "shareTok" ELSE "delTok",
                                          !.uploaded = id]]
               ELSE /\ UNCHANGED <<nodes, nextId>>
                    /\ mv' = [mv EXCEPT ![p] = Throw(Failed(m, "upload"), "error")]
        /\ called' = called \cup {"upload"}
        /\ UNCHANGED <<nodes0, accounts, now, batch, sel, auto, cache, acctVars>>

\* deleteFile, line 223
MoveDeleteToken(p) ==
    /\ mv[p].pc = "delTok"
    /\ EnsureValidToken(p, mv[p].src, [mv[p] EXCEPT !.pc = "delete"], "refreshDelete")
    /\ UNCHANGED <<nodes, nodes0, nextId, now, batch, sel, auto, cache, acctVars>>

\* deleteFile, lines 225-234
MoveDelete(p) ==
    LET m == mv[p]
        valid == Readable(m.fileId, m.src)
    IN  /\ m.pc = "delete"
        /\ \E o \in Responses(valid) :
            /\ faults' = Spend(o, valid)
            /\ IF o = "ok"
               THEN /\ nodes' = {n \in nodes : n.id # m.fileId}
                    /\ mv' = [mv EXCEPT ![p] = [m EXCEPT !.pc = "done"]]
               ELSE /\ UNCHANGED nodes
                    /\ mv' = [mv EXCEPT ![p] = Throw(Failed(m, "delete"), "error")]
        /\ called' = called \cup {"delete"}
        /\ UNCHANGED <<nodes0, nextId, accounts, now, batch, sel, auto, cache, acctVars>>

\* one step of caller p's moveFileWithPath
MoveStep(p) ==
    \/ MoveTokenSource(p)
    \/ MoveTokenTarget(p)
    \/ MoveGetMetadata(p)
    \/ MoveDownload(p)
    \/ MoveWalk(p)
    \/ MoveFindFolder(p)
    \/ MoveCreateFolder(p)
    \/ MoveEnsureUnique(p)
    \/ MoveUpload(p)
    \/ MoveDeleteToken(p)
    \/ MoveDelete(p)

\* ------------------------------------------------------- initial hierarchy
NullId == "null"
TextMime == "text/plain"

SourceRoot == Node(RootId, "P", "My Drive", FolderMime, Undef, 0, NoParent)
SourceDocs == Node("d1", "P", "Docs", FolderMime, Undef, 0, RootId)
SourceSub == Node("d2", "P", "Sub", FolderMime, Undef, 0, "d1")
FileA(parent) == Node("f1", "P", "a.txt", TextMime, "bytesA", 3, parent)
FileB(parent) == Node("f2", "P", "b.txt", TextMime, "bytesB", 2, parent)
FileC == Node("f3", "P", "a.txt", TextMime, "bytesC", 1, "d1")

SharedRoot == Node("R", "B1", "DriveVault", FolderMime, Undef, 0, NoParent)
SharedRoot2 == Node("R2", "B2", "DriveVault", FolderMime, Undef, 0, NoParent)
TargetA == Node("t1", "B1", "a.txt", TextMime, "bytesOld", 1, "R")
TargetDocs == Node("t2", "B1", "Docs", FolderMime, Undef, 0, "R")
TargetDocsA == Node("t3", "B1", "a.txt", TextMime, "bytesOld", 1, "t2")

\* where the file to move may hang in the source account
FileParents == {NoParent, RootId, "d1", "d2"}
\* what the shared folder of the target account may already hold
TargetTrees == {{}, {TargetA}, {TargetDocs}, {TargetDocs, TargetDocsA},
                {TargetA, TargetDocs, TargetDocsA}}

InitNodes2(fpA, fpB, tree) ==
    {SourceRoot, SourceDocs, SourceSub, FileA(fpA), FileB(fpB), FileC, SharedRoot,
     SharedRoot2}
        \cup tree
InitNodes(fp, tree) == InitNodes2(fp, "d1", tree)

\* the id by which the store names the root of the primary account in a
\* `parents` field: the alias the walk tests for (line 506), or the id of
\* the root node itself
RootIds == {RootId, "r0"}
RootedAt(ns, rid) ==
    {IF n.id = RootId THEN [n EXCEPT !.id = rid]
     ELSE IF n.parent = RootId THEN [n EXCEPT !.parent = rid]
     ELSE n : n \in ns}

IdleBatch ==
    [pc |-> "idle", fileIds |-> <<>>, i |-> 0, completed |-> 0, total |-> 0,
     progress |-> <<>>, attempts |-> <<>>, results |-> <<>>, clean |-> <<>>,
     toast |-> [title |-> "none", count |-> 0]]
IdleSel == [pc |-> "idle", result |-> NullId, returned |-> {}]
IdleAuto ==
    [pc |-> "idle", files |-> <<>>, i |-> 0, attempts |-> <<>>, outcomes |-> <<>>,
     uploadCalled |-> FALSE, upTarget |-> NullId]

TokenExpiries == {0, RefreshLifetime}

IdleConn ==
    [pc |-> "idle", id |-> NullId, existing |-> {}, todo |-> <<>>, primary |-> NullId,
     accountType |-> "backup", total |-> 0, used |-> 0, folder |-> NullId,
     owned |-> {}, connects |-> 0, outcome |-> "none"]
IdleSetPrimary ==
    [pc |-> "idle", accountId |-> NullId, calls |-> 0, outcome |-> "none"]
IdleToken == [pc |-> "idle", acct |-> NullId, kind |-> "none", exp |-> 0, calls |-> 0]
IdlePath ==
    [calls |-> 0, src |-> NullId, results |-> <<>>, created |-> <<>>, clean |-> <<>>,
     before |-> 1]

IdleTree == [creates |-> 0, outcome |-> "none"]

\* connectAccount before it is called: no popup, no timer, no listener, the
\* promise not made; inbox is the message posted to the window and not yet
\* dispatched, rows the account rows at the call
IdleAuth ==
    [pc |-> "idle", popup |-> "none", interval |-> FALSE, listener |-> FALSE,
     inbox |-> "none", settled |-> "pending", exchange |-> "none", rows |-> {}]

InitLocals ==
    /\ nextId = 1
    /\ now = 0
    /\ mv = [p \in Procs |-> IdleMove]
    /\ faults = 0
    /\ called = {}
    /\ batch = IdleBatch
    /\ sel = IdleSel
    /\ auto = IdleAuto
    /\ conn = IdleConn
    /\ sp = [p \in Procs |-> IdleSetPrimary]
    /\ perms = {}
    /\ tk = IdleToken
    /\ rp = IdlePath
    /\ dt = IdleTree
    /\ au = IdleAuth

InitCommon ==
    /\ InitLocals
    /\ cache = {}

\* ------------------------------------------------ a single moveFile call
InitMove ==
    /\ InitCommon
    /\ \E fp \in FileParents, tree \in TargetTrees, rid \in RootIds :
         nodes = RootedAt(InitNodes(fp, tree), rid)
    /\ nodes0 = nodes
    /\ \E e1, e2 \in TokenExpiries :
         accounts = [a \in AccountIds |->
            IF a = "P" THEN Account("primary", "active", 2, 1, NullId, e1)
            ELSE IF a = "B1" THEN Account("backup", "active", 2, 1, "R", e2)
            ELSE Account("backup", "active", 2, 1, "R2", RefreshLifetime)]

\* the times the clock jumps past the lifetime of every stored token
MaxTicks == 1

\* time passes: every token stored so far is past its lifetime
Tick ==
    /\ now < MaxTicks * RefreshLifetime
    /\ now' = now + RefreshLifetime
    /\ UNCHANGED <<nodes, nodes0, nextId, accounts, mv, faults, called, batch, sel, auto,
                   cache, acctVars>>

\* the view layer calls moveFileWithPath (line 252)
CallMoveFile(p, fileId, src, tgt, folderId, maintainPath) ==
    /\ mv[p].pc = "idle"
    /\ mv' = [mv EXCEPT ![p] = [IdleMove EXCEPT !.pc = "tokSrc", !.fileId = fileId,
                                   !.src = src, !.tgt = tgt,
                                   !.targetFolderId = folderId,
                                   !.maintainPath = maintainPath]]
    /\ nodes0' = nodes
    /\ UNCHANGED <<nodes, nextId, accounts, now, faults, called, batch, sel, auto, cache, acctVars>>

NextMove ==
    \/ \E mp \in BOOLEAN : CallMoveFile(1, "f1", "P", "B1", "R", mp)
    \/ MoveStep(1)
    \/ Tick

SpecMove == InitMove /\ [][NextMove]_vars

\* ---------------------------------------------- properties of a single move
\* the node to move, as it was when the move was called
Original(p) == CHOOSE n \in nodes0 : n.id = mv[p].fileId
\* every remote call of p's move so far was answered with success
CleanRun(p) == mv[p].failedAt = {}
\* the destination folder the move resolved held the file's name beforehand
ResolvedHoldsName(p) ==
    \E n \in nodes0 : n.parent = mv[p].final /\ n.name = Original(p).name
\* the nodes of the target account that did not exist before the move and
\* carry the source's name, bytes and type tag
NewCopies(p) ==
    {n \in nodes : /\ n.id \notin {x.id : x \in nodes0}
                   /\ n.acct = mv[p].tgt
                   /\ n.name = Original(p).name
                   /\ n.content = Original(p).content
                   /\ n.mimeType = Original(p).mimeType}
SourceHolds(p) == \E n \in nodes : n.id = mv[p].fileId /\ n.acct = mv[p].src

\* C1: a move whose remote calls all succeed and whose file name is not in
\* the resolved destination folder ends successfully, with exactly one new
\* node in the target account carrying the source's name, bytes and type tag
\* (inside the resolved folder) and with the original gone from the source.
C1_MoveWithoutCollision ==
    (Finished(1) /\ CleanRun(1) /\ ~ResolvedHoldsName(1))
        => /\ mv[1].pc = "done"
           /\ Cardinality(NewCopies(1)) = 1
           /\ \A n \in NewCopies(1) : n.parent = mv[1].final
           /\ ~SourceHolds(1)

C1_Witness ==
    /\ mv[1].pc = "done" /\ CleanRun(1) /\ mv[1].maintainPath
    /\ Len(mv[1].path) = 2
    /\ Cardinality(NewCopies(1)) = 1

\* the collision query of p's move was issued and answered
CollisionChecked(p) ==
    /\ Finished(p)
    /\ mv[p].final # Undef
    /\ "unique" \notin mv[p].failedAt

\* C2: whenever the resolved destination folder already holds a node with the
\* name of the file being moved, the move fails with a naming-conflict error
\* and the store is left exactly as it was.
C2_CollisionFailsWithoutMutation ==
    (CollisionChecked(1) /\ ResolvedHoldsName(1))
        => (mv[1].err = "conflict" /\ nodes = nodes0)

NonDeleteSteps == {"meta", "download", "walk", "find", "create", "unique", "upload"}

\* C3: when a remote call other than the final delete is answered with a
\* failure, the move ends with an error and the source file is still there.
C3_FailureAbortsAndKeepsSource ==
    (Finished(1) /\ mv[1].failedAt \cap NonDeleteSteps # {})
        => (mv[1].pc = "failed" /\ SourceHolds(1))

\* C4: at every moment of a move the original bytes are held by the source
\* account or by the target account.
C4_NoDataLoss ==
    mv[1].pc # "idle"
        => \E n \in nodes : /\ n.content = Original(1).content
                            /\ n.acct \in {mv[1].src, mv[1].tgt}

\* ------------------------------------------------------ moveFilesInBatch
BatchFileIds == {"f1", "f2", "f3"}
\* the id arrays a batch may be called with: distinct ids, 1..MaxBatch long
BatchInputs ==
    {ids \in UNION {[1..n -> BatchFileIds] : n \in 1..MaxBatch} :
        \A x, y \in DOMAIN ids : x # y => ids[x] # ids[y]}

InitBatch ==
    /\ InitCommon
    /\ \E fp \in {"d1", "d2"}, tree \in {{}, {TargetDocs, TargetDocsA}} :
         nodes = InitNodes(fp, tree)
    /\ nodes0 = nodes
    /\ \E e1 \in TokenExpiries :
         accounts = [a \in AccountIds |->
            IF a = "P" THEN Account("primary", "active", 2, 1, NullId, e1)
            ELSE IF a = "B1" THEN Account("backup", "active", 2, 1, "R", RefreshLifetime)
            ELSE Account("backup", "active", 2, 1, "R2", RefreshLifetime)]

\* lines 557-559
CallBatch(ids) ==
    /\ batch.pc = "idle"
    /\ batch' = [IdleBatch EXCEPT !.pc = "loop", !.fileIds = ids, !.i = 1,
                                  !.total = Len(ids)]
    /\ nodes0' = nodes
    /\ UNCHANGED <<nodes, nextId, accounts, now, mv, faults, called, sel, auto, cache, acctVars>>

\* the reverse iteration order
BatchFileAt_Reversed(ids, i) == ids[Len(ids) + 1 - i]

\* line 561: the i-th file the loop takes up
BatchFileAt(ids, i) == ids[i]

\* the loop once file i is dealt with (line 561: next id, or the end)
BatchAdvance(b) ==
    [b EXCEPT !.i = @ + 1, !.pc = IF b.i = Len(b.fileIds) THEN "done" ELSE "loop"]

\* lines 561-563: the loop body calls moveFileWithPath(.., true) and awaits it
BatchStartFile ==
    /\ batch.pc = "loop"
    /\ mv[1].pc = "idle"
    /\ LET f == BatchFileAt(batch.fileIds, batch.i)
       IN  /\ mv' = [mv EXCEPT ![1] =
                       [IdleMove EXCEPT !.pc = "tokSrc", !.fileId = f,
                                        !.targetFolderId = "R", !.maintainPath = TRUE]]
           /\ batch' = [batch EXCEPT !.pc = "moving", !.attempts = Append(@, f)]
    /\ UNCHANGED <<nodes, nodes0, nextId, accounts, now, faults, called, sel, auto, cache, acctVars>>

\* lines 564-567: the move returned
BatchFileMoved ==
    /\ batch.pc = "moving"
    /\ mv[1].pc = "done"
    /\ batch' = BatchAdvance([batch EXCEPT
                    !.completed = @ + 1,
                    !.progress = Append(@, <<batch.completed + 1, batch.total>>),
                    !.results = Append(@, "ok"),
                    !.clean = Append(@, CleanRun(1))])
    /\ mv' = [mv EXCEPT ![1] = IdleMove]
    /\ UNCHANGED <<nodes, nodes0, nextId, accounts, now, faults, called, sel, auto, cache, acctVars>>

\* the catch clause rethrowing: the loop ends at the first failure
BatchCatch_Rethrow(b) == [b EXCEPT !.pc = "done"]

\* lines 568-571: the catch clause logs the error, the loop goes on
BatchCatch(b) == BatchAdvance(b)

\* lines 568-571: the move threw
BatchFileFailed ==
    /\ batch.pc = "moving"
    /\ mv[1].pc = "failed"
    /\ batch' = BatchCatch([batch EXCEPT !.results = Append(@, mv[1].err),
                                         !.clean = Append(@, CleanRun(1))])
    /\ mv' = [mv EXCEPT ![1] = IdleMove]
    /\ UNCHANGED <<nodes, nodes0, nextId, accounts, now, faults, called, sel, auto, cache, acctVars>>

NextBatch ==
    \/ \E ids \in BatchInputs : CallBatch(ids)
    \/ BatchStartFile
    \/ MoveStep(1)
    \/ BatchFileMoved
    \/ BatchFileFailed

SpecBatch == InitBatch /\ [][NextBatch]_vars

\* ------------------------------------------------ properties of the batch
\* file f is moved: gone from the source, and a node that did not exist
\* before the batch carries its name, bytes and type tag in the target
MovedFile(f) ==
    LET orig == CHOOSE n \in nodes0 : n.id = f
    IN  /\ ~\E n \in nodes : n.id = f
        /\ \E n \in nodes : /\ n.id \notin {x.id : x \in nodes0}
                            /\ n.acct = "B1"
                            /\ n.name = orig.name
                            /\ n.content = orig.content
                            /\ n.mimeType = orig.mimeType

\* C5: when the batch has ended, a move was attempted for every file id of
\* the input, and every file whose own remote calls all succeeded and whose
\* name was free in its destination folder is moved, whatever happened to
\* the other files.
C5_BatchContinuesAfterFailure ==
    batch.pc = "done"
        => /\ batch.attempts = batch.fileIds
           /\ Len(batch.results) = Len(batch.fileIds)
           /\ \A j \in 1..Len(batch.fileIds) :
                (batch.clean[j] /\ batch.results[j] # "conflict")
                    => (batch.results[j] = "ok" /\ MovedFile(batch.fileIds[j]))

C5_Witness ==
    /\ batch.pc = "done"
    /\ Len(batch.fileIds) = 2
    /\ batch.results[1] = "error"
    /\ batch.results[2] = "ok" /\ batch.clean[2]
    /\ MovedFile(batch.fileIds[2])

\* C6: when the batch has ended, onProgress was invoked exactly once per
\* file id, the j-th invocation with (j, N).
C6_ProgressOncePerFile ==
    batch.pc = "done"
        => /\ Len(batch.progress) = Len(batch.fileIds)
           /\ \A j \in 1..Len(batch.progress) :
                batch.progress[j] = <<j, Len(batch.fileIds)>>

\* a remote call of the running move is about to be answered
MoveInFlight == mv[1].pc \notin {"idle", "done", "failed"}

\* C7: a step of a file's move happens only while that file is the one the
\* loop is at, every file before it in the input array has ended (with
\* success or failure) and no file after it has been taken up; the loop
\* index never goes back.
C7_BatchSequentialInOrder ==
    [][ /\ (MoveInFlight /\ mv'[1] # mv[1])
            => /\ batch.pc = "moving"
               /\ mv[1].fileId = batch.fileIds[batch.i]
               /\ Len(batch.results) = batch.i - 1
               /\ Len(batch.attempts) = batch.i
        /\ batch.i' >= batch.i
        /\ batch'.attempts = SubSeq(batch'.fileIds, 1, Len(batch'.attempts)) ]_vars

C7_Witness ==
    /\ batch.pc = "moving"
    /\ batch.i = 2
    /\ mv[1].pc = "upload"
    /\ mv[1].fileId = batch.fileIds[2]
    /\ batch.results[1] # "ok"

\* ----------------------------------------------- selectBestBackupAccount
\* the order in which the account table returns its rows
AccountOrder == <<"P", "B1", "B2">>

\* the query without its status filter
BackupRows_AnyStatus ==
    SelectSeq(AccountOrder, LAMBDA a : accounts[a].account_type = "backup")

\* lines 649-654: the rows with account_type = backup and status = active
BackupRows ==
    SelectSeq(AccountOrder,
              LAMBDA a : accounts[a].account_type = "backup"
                         /\ accounts[a].status = "active")

\* line 664
FreeSpace(a) == OrZero(accounts[a].total_storage) - OrZero(accounts[a].used_storage)

\* the comparator with its operands swapped
SortsBefore_Ascending(a, b) == FreeSpace(a) <= FreeSpace(b)

\* line 667: the comparator (b.freeSpace - a.freeSpace) keeps a before b
SortsBefore(a, b) == FreeSpace(a) >= FreeSpace(b)

RECURSIVE InsertSorted(_, _)
InsertSorted(a, s) ==
    IF s = <<>> THEN <<a>>
    ELSE IF SortsBefore(a, Head(s)) THEN <<a>> \o s
         ELSE <<Head(s)>> \o InsertSorted(a, Tail(s))

RECURSIVE SortRows(_)
SortRows(s) ==
    IF s = <<>> THEN <<>> ELSE InsertSorted(Head(s), SortRows(Tail(s)))

\* the filter that keeps the accounts without any free space
AccountsWithFreeSpace_KeepsFull ==
    SortRows(SelectSeq(BackupRows, LAMBDA a : FreeSpace(a) >= 0))

\* lines 661-667
AccountsWithFreeSpace ==
    SortRows(SelectSeq(BackupRows, LAMBDA a : FreeSpace(a) > 0))

\* lines 674-675
TopAccounts ==
    LET maxFreeSpace == FreeSpace(AccountsWithFreeSpace[1])
    IN  SelectSeq(AccountsWithFreeSpace, LAMBDA a : FreeSpace(a) = maxFreeSpace)

\* the random index always being the first one
RandomIndexes_First(n) == {1}

\* line 677: Math.floor(Math.random() * n), as a 1-based index
RandomIndexes(n) == 1..n

QuotaValues == {Null} \cup (0..MaxQuota)

InitSelect ==
    /\ InitCommon
    /\ nodes = InitNodes("d1", {})
    /\ nodes0 = nodes
    /\ \E s1, s2 \in {"active", "expired"}, t1, t2, u1, u2 \in QuotaValues :
         accounts = [a \in AccountIds |->
            IF a = "P"
            THEN Account("primary", "active", MaxQuota + 1, 0, NullId, RefreshLifetime)
            ELSE IF a = "B1" THEN Account("backup", s1, t1, u1, "R", RefreshLifetime)
            ELSE Account("backup", s2, t2, u2, "R2", RefreshLifetime)]

\* lines 656-658 and 669-671: no candidate, the call throws
SelectBestThrows ==
    /\ Len(BackupRows) = 0 \/ Len(AccountsWithFreeSpace) = 0
    /\ sel' = [sel EXCEPT !.pc = "threw", !.result = NullId]
    /\ UNCHANGED <<nodes, nodes0, nextId, accounts, now, mv, faults, called, batch, auto, cache, acctVars>>

\* line 677: the call returns the i-th of the top accounts
SelectBestReturns(i) ==
    /\ Len(BackupRows) # 0
    /\ Len(AccountsWithFreeSpace) # 0
    /\ i \in RandomIndexes(Len(TopAccounts))
    /\ sel' = [sel EXCEPT !.pc = "returned", !.result = TopAccounts[i],
                          !.returned = @ \cup {TopAccounts[i]}]
    /\ UNCHANGED <<nodes, nodes0, nextId, accounts, now, mv, faults, called, batch, auto, cache, acctVars>>

NextSelect ==
    \/ SelectBestThrows
    \/ \E i \in 1..Len(AccountOrder) : SelectBestReturns(i)

SpecSelect == InitSelect /\ [][NextSelect]_vars

\* the random choice is fair: an index that stays possible is drawn in the end
FairSpecSelect ==
    SpecSelect /\ \A i \in 1..Len(AccountOrder) : WF_vars(SelectBestReturns(i))

\* the user's active backup accounts
ActiveBackups ==
    {a \in AccountIds : accounts[a].account_type = "backup"
                        /\ accounts[a].status = "active"}
\* total minus used, a null column counting as 0
Free(a) ==
    (IF accounts[a].total_storage = Null THEN 0 ELSE accounts[a].total_storage)
  - (IF accounts[a].used_storage = Null THEN 0 ELSE accounts[a].used_storage)
\* the accounts tied on the maximum (positive) free space
TiedBest ==
    {a \in ActiveBackups : Free(a) > 0 /\ \A b \in ActiveBackups : Free(b) <= Free(a)}

\* C8: an account id returned by selectBestBackupAccount names an active
\* backup account whose free space no active backup account exceeds.
C8_ReturnsMaximumFreeSpace ==
    sel.pc = "returned"
        => /\ sel.result \in ActiveBackups
           /\ \A b \in ActiveBackups : Free(b) <= Free(sel.result)

C8_Witness ==
    /\ sel.pc = "returned"
    /\ Cardinality(ActiveBackups) = 2
    /\ \E b \in ActiveBackups : Free(b) > 0 /\ Free(b) < Free(sel.result)

\* C9: only accounts tied on the maximum free space are returned, and under
\* a fair random choice every one of the tied accounts is returned in the end.
C9_EveryTiedAccountReturned ==
    /\ [](sel.pc = "returned" => sel.result \in TiedBest)
    /\ \A a \in AccountIds : [](a \in TiedBest => <>(sel.result = a))

C9_Witness ==
    /\ Cardinality(TiedBest) = 2
    /\ sel.returned = TiedBest

\* ------------------------------------------------ checkStorageAndAutoMove
\* the threshold test admitting equality
BelowThreshold_OrEqual(total, used) ==
    (OrZero(total) - OrZero(used)) * 100 <= OrZero(total) * ThresholdPercent

\* lines 680-683: freeSpace < total * 0.1, in integers
BelowThreshold(total, used) ==
    (OrZero(total) - OrZero(used)) * 100 < OrZero(total) * ThresholdPercent

PrimaryTotals == {Null, 0, 10}
PrimaryUsed == {0, 9, 10}

\* files uploaded to the primary account after its last successful listing
FileD == Node("f4", "P", "d.bin", DefaultMime, "bytesD", 6, "d1")
FileE == Node("f5", "P", "e.bin", DefaultMime, "bytesE", 5, "d1")
FileF == Node("f6", "P", "f.bin", DefaultMime, "bytesF", 4, "d1")
LaterFiles == {FileD, FileE, FileF}

Rows(ns) == {[id |-> n.id, size |-> n.size] : n \in ns}

\* the drive_files rows an earlier listing of the primary account left behind
\* (syncFilesToDatabase, lines 483-512): none, or those of the files it saw
SyncedRows(fp) == {{}, Rows({FileA(fp), FileB("d1"), FileC})}

\* the scenarios of the routine: where f1 hangs, what was uploaded since the
\* last listing, and the status of the second backup account
AutoScenarios ==
    {sc \in {RootId, "d1"} \X {{}, LaterFiles} \X {"active", "expired"} :
        sc[2] # {} => (sc[1] = "d1" /\ sc[3] = "expired")}

InitAuto ==
    /\ InitLocals
    /\ \E sc \in AutoScenarios, t \in PrimaryTotals, u \in PrimaryUsed,
          e \in TokenExpiries :
         /\ nodes = InitNodes(sc[1], {}) \cup sc[2]
         /\ cache \in SyncedRows(sc[1])
         /\ accounts = [a \in AccountIds |->
              IF a = "P" THEN Account("primary", "active", t, u, NullId, e)
              ELSE IF a = "B1" THEN Account("backup", "active", 2, 1, "R", 0)
              ELSE Account("backup", sc[3], 2, 1, "R2", RefreshLifetime)]
    /\ nodes0 = nodes

\* lines 672-683: read the primary row and test the threshold
AutoCall ==
    /\ auto.pc = "idle"
    /\ auto' = [auto EXCEPT !.pc =
                  IF BelowThreshold(accounts["P"].total_storage,
                                    accounts["P"].used_storage)
                  THEN "listTok" ELSE "done"]
    /\ nodes0' = nodes
    /\ UNCHANGED <<nodes, nextId, accounts, now, mv, faults, called, batch, sel, cache, acctVars>>

\* getFiles, line 26, called by getLargestFiles (line 648)
AutoListToken ==
    /\ auto.pc = "listTok"
    /\ \/ TokenReturns("P") /\ auto' = [auto EXCEPT !.pc = "list"]
       \/ TokenThrows("P") /\ auto' = [auto EXCEPT !.pc = "threw"]
    /\ UNCHANGED <<nodes, nodes0, nextId, now, mv, batch, sel, cache, acctVars>>

\* getFiles, lines 45-59: the listing of a primary account leaves out the
\* children of the backup accounts' shared folders
ListedFiles ==
    LET shared == {accounts[a].shared_folder_id :
                     a \in {b \in AccountIds : accounts[b].account_type = "backup"
                                               /\ accounts[b].shared_folder_id # NullId}}
    IN  {n \in nodes : n.acct = "P" /\ n.parent \notin shared}

\* the arrangements of a set of (id, size) rows by descending size
SortedBySize(rows) ==
    {q \in [1..Cardinality(rows) -> rows] :
        /\ \A x, y \in DOMAIN q : x # y => q[x] # q[y]
        /\ \A x, y \in DOMAIN q : x < y => q[x].size >= q[y].size}

Min(a, b) == IF a < b THEN a ELSE b

\* getLargestFiles, lines 649-652: positive size, descending, the first `limit`
LargestOf(rows, limit) ==
    LET pos == {r \in rows : r.size > 0}
    IN  {[j \in 1..Min(limit, Cardinality(pos)) |-> q[j].id] : q \in SortedBySize(pos)}

\* getFiles, lines 68-103, then getLargestFiles(primary, 5): a listing that
\* fails falls back to the cached rows
AutoListFiles ==
    /\ auto.pc = "list"
    /\ \E o \in Responses(TRUE) :
        /\ faults' = Spend(o, TRUE)
        /\ LET rows == IF o = "ok" THEN Rows(ListedFiles) ELSE cache
           IN  /\ cache' = IF o = "ok"
                           THEN {r \in cache : r.id \notin {x.id : x \in rows}} \cup rows
                           ELSE cache
               /\ \E files \in LargestOf(rows, AutoMoveLimit) :
                    auto' = [auto EXCEPT !.files = files, !.i = 1,
                                         !.pc = IF Len(files) = 0 THEN "done" ELSE "loop"]
    /\ called' = called \cup {"list"}
    /\ UNCHANGED <<nodes, nodes0, nextId, accounts, now, mv, batch, sel, acctVars>>

\* line 687: the loop goes to the next file, or the routine returns
AutoAdvance(a) ==
    [a EXCEPT !.i = @ + 1, !.pc = IF a.i = Len(a.files) THEN "done" ELSE "loop"]

\* the catch clause rethrowing: the routine ends at the first failure
AutoCatch_Rethrow(a) == [a EXCEPT !.pc = "threw"]

\* lines 690-692: the catch clause logs the error, the loop goes on
AutoCatch(a) == AutoAdvance(a)

\* moveFileToBackup throws before the move starts (lines 656-666): no backup
\* account can be selected, or the selected one has no shared folder
AutoMoveNoTarget ==
    /\ auto.pc = "loop"
    /\ \/ Len(BackupRows) = 0
       \/ Len(AccountsWithFreeSpace) = 0
       \/ \E i \in RandomIndexes(Len(TopAccounts)) :
            accounts[TopAccounts[i]].shared_folder_id = NullId
    /\ auto' = AutoCatch([auto EXCEPT !.attempts = Append(@, auto.files[auto.i]),
                                      !.outcomes = Append(@, "noTarget")])
    /\ UNCHANGED <<nodes, nodes0, nextId, accounts, now, mv, faults, called, batch, sel,
                   cache, acctVars>>

\* moveFileToBackup(file.id, primary, undefined, true), lines 656-668
AutoMoveStart(i) ==
    /\ auto.pc = "loop"
    /\ mv[1].pc = "idle"
    /\ Len(BackupRows) # 0
    /\ Len(AccountsWithFreeSpace) # 0
    /\ i \in RandomIndexes(Len(TopAccounts))
    /\ LET tgt == TopAccounts[i]
       IN  /\ accounts[tgt].shared_folder_id # NullId
           /\ mv' = [mv EXCEPT ![1] =
                       [IdleMove EXCEPT !.pc = "tokSrc", !.fileId = auto.files[auto.i],
                                        !.src = "P", !.tgt = tgt,
                                        !.targetFolderId = accounts[tgt].shared_folder_id,
                                        !.maintainPath = TRUE]]
    /\ auto' = [auto EXCEPT !.pc = "moving", !.attempts = Append(@, auto.files[auto.i])]
    /\ UNCHANGED <<nodes, nodes0, nextId, accounts, now, faults, called, batch, sel, cache, acctVars>>

\* lines 688-692: the move returned or threw; a failure is logged
AutoMoveEnded ==
    /\ auto.pc = "moving"
    /\ Finished(1)
    /\ LET a == [auto EXCEPT !.outcomes = Append(@, mv[1].pc)]
       IN  auto' = IF mv[1].pc = "done" THEN AutoAdvance(a) ELSE AutoCatch(a)
    /\ mv' = [mv EXCEPT ![1] = IdleMove]
    /\ UNCHANGED <<nodes, nodes0, nextId, accounts, now, faults, called, batch, sel, cache, acctVars>>

\* the file the user picked for upload
NewFile(id, acct, parent) == Node(id, acct, "new.txt", TextMime, "bytesNew", 1, parent)

\* handleFileUpload, lines 88-94: the routine returned, uploadFile(file) is
\* called and chooses its account (uploadFile, lines 550-552)
UploadSelect ==
    /\ auto.pc = "done"
    /\ \/ /\ Len(BackupRows) = 0 \/ Len(AccountsWithFreeSpace) = 0
          /\ auto' = [auto EXCEPT !.pc = "uploadFailed", !.uploadCalled = TRUE]
       \/ /\ Len(BackupRows) # 0
          /\ Len(AccountsWithFreeSpace) # 0
          /\ \E i \in RandomIndexes(Len(TopAccounts)) :
               auto' = [auto EXCEPT !.pc = "upTok", !.uploadCalled = TRUE,
                                    !.upTarget = TopAccounts[i]]
    /\ UNCHANGED <<nodes, nodes0, nextId, accounts, now, mv, faults, called, batch, sel,
                   cache, acctVars>>

\* uploadFile, line 555
UploadToken ==
    /\ auto.pc = "upTok"
    /\ \/ TokenReturns(auto.upTarget) /\ auto' = [auto EXCEPT !.pc = "upSend"]
       \/ TokenThrows(auto.upTarget) /\ auto' = [auto EXCEPT !.pc = "uploadFailed"]
    /\ UNCHANGED <<nodes, nodes0, nextId, now, mv, batch, sel, cache, acctVars>>

\* uploadFile, lines 565-609: the multipart upload into the shared folder of
\* a backup account
UploadSend ==
    LET row == accounts[auto.upTarget]
        parentFolderId == IF row.account_type = "backup" /\ row.shared_folder_id # NullId
                          THEN row.shared_folder_id ELSE RootId
    IN  /\ auto.pc = "upSend"
        /\ nextId <= Len(FreshIds)
        /\ \E o \in Responses(TRUE) :
            /\ faults' = Spend(o, TRUE)
            /\ IF o = "ok"
               THEN /\ nodes' = nodes \cup {NewFile(FreshIds[nextId], auto.upTarget,
                                                    parentFolderId)}
                    /\ nextId' = nextId + 1
                    /\ auto' = [auto EXCEPT !.pc = "uploaded"]
               ELSE /\ UNCHANGED <<nodes, nextId>>
                    /\ auto' = [auto EXCEPT !.pc = "uploadFailed"]
        /\ called' = called \cup {"upload"}
        /\ UNCHANGED <<nodes0, accounts, now, mv, batch, sel, cache, acctVars>>

\* handleFileUpload, lines 101-106: checkStorageAndAutoMove threw, the catch
\* clause reports the failure and uploadFile is never called
UploadSkipped ==
    /\ auto.pc = "threw"
    /\ auto' = [auto EXCEPT !.pc = "uploadSkipped"]
    /\ UNCHANGED <<nodes, nodes0, nextId, accounts, now, mv, faults, called, batch, sel,
                   cache, acctVars>>

NextAuto ==
    \/ AutoCall
    \/ AutoListToken
    \/ AutoListFiles
    \/ AutoMoveNoTarget
    \/ \E i \in 1..Len(AccountOrder) : AutoMoveStart(i)
    \/ MoveStep(1)
    \/ AutoMoveEnded
    \/ UploadSelect
    \/ UploadToken
    \/ UploadSend
    \/ UploadSkipped

SpecAuto == InitAuto /\ [][NextAuto]_vars

\* the primary account's free space is strictly below 10% of its total
PrimaryBelowTenPercent ==
    LET total == IF accounts["P"].total_storage = Null THEN 0
                 ELSE accounts["P"].total_storage
        used == IF accounts["P"].used_storage = Null THEN 0
                ELSE accounts["P"].used_storage
    IN  10 * (total - used) < total

\* checkStorageAndAutoMove has returned normally (the caller may be uploading)
AutoReturned == auto.pc \in {"done", "upTok", "upSend", "uploaded", "uploadFailed"}

\* C10: the routine attempts a move only when the primary account's free
\* space is strictly below 10% of its total; otherwise it returns having
\* attempted no move, issued no call to the remote store or the token
\* endpoint and changed nothing.
C10_AutoMoveOnlyBelowThreshold ==
    /\ (Len(auto.attempts) > 0 \/ mv[1].pc # "idle") => PrimaryBelowTenPercent
    /\ (auto.pc # "idle" /\ ~PrimaryBelowTenPercent)
          => /\ AutoReturned
             /\ auto.attempts = <<>>
             /\ auto.pc = "done" => (called = {} /\ nodes = nodes0)

C10_Witness ==
    /\ auto.pc = "done"
    /\ accounts["P"].total_storage = 10
    /\ accounts["P"].used_storage = 9
    /\ auto.attempts = <<>>

\* the files the primary account held when the routine was called
PrimaryFiles0 == {n \in nodes0 : n.acct = "P" /\ n.mimeType # FolderMime}
SizeOf0(id) == (CHOOSE n \in nodes0 : n.id = id).size
\* the ids in S are five of the largest files (all files when there are fewer)
FiveLargest(S) ==
    /\ S \subseteq {n.id : n \in PrimaryFiles0}
    /\ Cardinality(S) = Min(5, Cardinality(PrimaryFiles0))
    /\ \A n \in PrimaryFiles0 : n.id \notin S => \A x \in S : SizeOf0(x) >= n.size

\* C11: when the primary account is below the threshold, the routine
\* attempts a move for exactly the 5 largest files of the primary account
\* (all of them when fewer than 5 exist), once each and in descending order
\* of size, every move with maintainPath = true, and for no other file.
C11_AutoMovesFiveLargest ==
    /\ mv[1].pc # "idle" => mv[1].maintainPath
    /\ (auto.pc = "done" /\ PrimaryBelowTenPercent)
          => /\ FiveLargest({auto.attempts[j] : j \in DOMAIN auto.attempts})
             /\ \A j, k \in DOMAIN auto.attempts :
                   j < k => /\ auto.attempts[j] # auto.attempts[k]
                            /\ SizeOf0(auto.attempts[j]) >= SizeOf0(auto.attempts[k])

\* C12: a file move that fails during the routine (the move throws, or no
\* backup account can be chosen for it) is swallowed: the routine never ends
\* by throwing once its loop has begun, it returns only after a move was
\* attempted for every selected file, and on its return the caller goes on
\* to call uploadFile.
C12_AutoMoveFailuresSwallowed ==
    /\ [](auto.pc \in {"threw", "uploadSkipped"}
            => (auto.files = <<>> /\ auto.outcomes = <<>>))
    /\ [](AutoReturned => (auto.attempts = auto.files
                           /\ Len(auto.outcomes) = Len(auto.files)))
    /\ [][auto.pc = "done" => (auto'.pc \in {"upTok", "uploadFailed"}
                               /\ auto'.uploadCalled)]_vars

C12_Witness ==
    /\ auto.uploadCalled
    /\ Len(auto.files) = 3
    /\ auto.attempts = auto.files
    /\ auto.outcomes = <<"failed", "noTarget", "noTarget">>

\* ------------------------------------------- recreateFolderPath, called twice
\* the calls of recreateFolderPath made on one source folder
MaxCalls == 2
SourceFolders == {"d1", "d2"}

InitPath ==
    /\ InitCommon
    /\ \E tree \in TargetTrees, rid \in RootIds :
         nodes = RootedAt(InitNodes("d1", tree), rid)
    /\ nodes0 = nodes
    /\ accounts = [a \in AccountIds |->
          IF a = "P" THEN Account("primary", "active", 2, 1, NullId, RefreshLifetime)
          ELSE IF a = "B1" THEN Account("backup", "active", 2, 1, "R", RefreshLifetime)
          ELSE Account("backup", "active", 2, 1, "R2", RefreshLifetime)]

\* line 473: recreateFolderPath(sourceFolderId, .., rootTargetFolder, ..)
CallRecreate(sourceFolderId) ==
    /\ mv[1].pc = "idle"
    /\ rp.calls < MaxCalls
    /\ rp.calls = 0 \/ sourceFolderId = rp.src
    /\ mv' = [mv EXCEPT ![1] = [IdleMove EXCEPT !.pc = "walk", !.parent = sourceFolderId,
                                   !.cur = sourceFolderId, !.targetFolderId = "R",
                                   !.maintainPath = TRUE]]
    /\ rp' = [rp EXCEPT !.calls = @ + 1, !.src = sourceFolderId, !.before = nextId]
    /\ UNCHANGED <<nodes, nodes0, nextId, accounts, now, faults, called, batch, sel, auto,
                   cache, conn, sp, perms, tk, dt, au>>

\* line 488: the call returns currentTargetFolder; or a helper threw
RecreateEnded ==
    /\ rp.calls = Len(rp.results) + 1
    /\ \/ mv[1].pc = "unique"
       \/ mv[1].pc = "failed"
    /\ rp' = [rp EXCEPT
                !.results = Append(@, IF mv[1].pc = "failed" THEN "threw" ELSE mv[1].final),
                !.created = Append(@, nextId - rp.before),
                !.clean = Append(@, CleanRun(1))]
    /\ mv' = [mv EXCEPT ![1] = IdleMove]
    /\ UNCHANGED <<nodes, nodes0, nextId, accounts, now, faults, called, batch, sel, auto,
                   cache, conn, sp, perms, tk, dt, au>>

NextPath ==
    \/ \E f \in SourceFolders : CallRecreate(f)
    \/ MoveWalk(1)
    \/ MoveFindFolder(1)
    \/ MoveCreateFolder(1)
    \/ RecreateEnded

SpecPath == InitPath /\ [][NextPath]_vars

\* ---------------------------------------------------- the path recreator
\* the names of the folders from the top level of the source account down to
\* folder id, the account root itself left out
RECURSIVE AncestorNames(_)
AncestorNames(id) ==
    LET n == CHOOSE x \in nodes0 : x.id = id
    IN  IF n.parent = NoParent THEN <<>>
        ELSE AncestorNames(n.parent) \o <<n.name>>

\* the folders reached from folder `start` by a chain of child folders
\* carrying the given names
RECURSIVE Descend(_, _)
Descend(start, names) ==
    IF names = <<>> THEN {start}
    ELSE UNION {Descend(n.id, Tail(names)) :
                  n \in {x \in nodes : /\ x.parent = start
                                        /\ x.name = Head(names)
                                        /\ x.mimeType = FolderMime}}

\* recreateFolderPath of p's move has returned a folder
PathRecreated(p) ==
    /\ mv[p].maintainPath
    /\ mv[p].final # Undef
    /\ Original(p).parent # NoParent

\* C13: the folder recreateFolderPath returns is reached from the target
\* root by a chain of child folders whose names, root to leaf, are the names
\* of the source folder's ancestor chain: a file directly under the
\* top-level folder "Docs" ends up in a folder "Docs" directly under the
\* shared root.
C13_PathMirrorsAncestorChain ==
    (PathRecreated(1) /\ CleanRun(1))
        => mv[1].final \in Descend(mv[1].targetFolderId,
                                   AncestorNames(Original(1).parent))

\* C14: a second call of recreateFolderPath with the same source folder and
\* target root, nothing else having touched the target hierarchy, returns
\* the folder id the first call returned and creates no folder.
C14_RecreateIsIdempotent ==
    (Len(rp.results) = 2 /\ rp.results[1] # "threw" /\ rp.results[2] # "threw")
        => (rp.results[2] = rp.results[1] /\ rp.created[2] = 0)

\* ------------------------------------------- the account service (connect)
\* connects (first connects and reconnects) made in one scenario
MaxConnects == 3
\* setPrimaryAccount calls of one caller
MaxSetPrimary == 1

\* the Google identities the user connects
ConnectIds == {"P", "B1"}

\* the rows of the user in google_accounts
Connected == DOMAIN accounts
\* getConnectedAccounts, lines 450-454: the rows with status = active
ActiveRows == {a \in Connected : accounts[a].status = "active"}

\* line 590: `shared_${primaryAccount.email}`
SharedName(primaryId) ==
    CASE primaryId = "P" -> "shared_P"
      [] primaryId = "B1" -> "shared_B1"
      [] OTHER -> "shared_B2"

InitAccounts ==
    /\ InitCommon
    /\ nodes = {}
    /\ nodes0 = {}
    /\ accounts = [a \in {} |-> Account("backup", "active", 0, 0, NullId, 0)]

\* lines 392-395: the connect returns the account, or throws
ConnectEnds(c, outcome) ==
    [IdleConn EXCEPT !.connects = c.connects + 1, !.outcome = outcome]

\* lines 326-357: the code is exchanged for tokens and the profile is read;
\* either request failing makes the connect throw
ConnectExchange(g) ==
    /\ conn.pc = "idle"
    /\ conn.connects < MaxConnects
    /\ \E o \in Responses(TRUE) :
         /\ faults' = Spend(o, TRUE)
         /\ conn' = IF o = "ok" THEN [conn EXCEPT !.pc = "storage", !.id = g] ELSE conn
    /\ UNCHANGED <<nodes, nodes0, nextId, accounts, now, mv, called, batch, sel, auto, cache,
                   sp, perms, tk, rp, dt, au>>

\* getStorageInfo, lines 398-417: a failure is caught and gives 0 / 0
ConnectStorage ==
    /\ conn.pc = "storage"
    /\ \E o \in Responses(TRUE) :
         /\ faults' = Spend(o, TRUE)
         /\ conn' = [conn EXCEPT !.pc = "read",
                                 !.total = IF o = "ok" THEN 2 ELSE 0,
                                 !.used = IF o = "ok" THEN 1 ELSE 0]
    /\ UNCHANGED <<nodes, nodes0, nextId, accounts, now, mv, called, batch, sel, auto, cache,
                   sp, perms, tk, rp, dt, au>>

\* line 364
AccountTypeFor(existingAccounts) ==
    IF existingAccounts = {} THEN "primary" ELSE "backup"

\* getConnectedAccounts, lines 450-470: the active rows are read
ConnectReadExisting ==
    /\ conn.pc = "read"
    /\ LET existing == {<<a, accounts[a].account_type>> : a \in ActiveRows}
       IN  conn' = [conn EXCEPT
                      !.existing = existing,
                      !.todo = SelectSeq(AccountOrder, LAMBDA a : a \in ActiveRows),
                      !.accountType = AccountTypeFor(existing),
                      !.pc = IF existing = {} THEN "store" ELSE "validate"]
    /\ UNCHANGED <<nodes, nodes0, nextId, accounts, now, mv, faults, called, batch, sel, auto,
                   cache, sp, perms, tk, rp, dt, au>>

\* getConnectedAccounts, lines 473-480: ensureValidToken for the next row
\* read; a throw (refresh failed, row gone) is caught
ConnectValidate ==
    /\ conn.pc = "validate"
    /\ LET a == Head(conn.todo)
       IN  \/ a \notin Connected /\ UNCHANGED <<accounts, faults, called>>
           \/ a \in Connected /\ TokenReturns(a)
           \/ a \in Connected /\ TokenThrows(a)
    /\ conn' = [conn EXCEPT !.todo = Tail(@),
                            !.pc = IF Len(conn.todo) = 1 THEN "store" ELSE "validate"]
    /\ UNCHANGED <<nodes, nodes0, nextId, now, mv, batch, sel, auto, cache, sp, perms, tk, rp, dt, au>>

\* storeAccountInDatabase, lines 423-441: the row a first connect inserts
InsertedRow(c) ==
    Account(c.accountType, "active", c.total, c.used, NullId, now + RefreshLifetime)

\* the columns the upsert writes into a row that exists: status and
\* shared_folder_id are not among them (sharedFolderId is still undefined)
MergedRow(row, c) ==
    [row EXCEPT !.account_type = c.accountType, !.total_storage = c.total,
                !.used_storage = c.used, !.token_expires_at = now + RefreshLifetime]

\* lines 383-385: the primary account among the rows read earlier
PrimariesRead(c) == {e[1] : e \in {x \in c.existing : x[2] = "primary"}}

\* lines 382-392: after the row is stored
AfterStore(c) ==
    IF c.accountType = "backup" /\ PrimariesRead(c) # {}
    THEN {[c EXCEPT !.pc = "findShared", !.primary = pr] : pr \in PrimariesRead(c)}
    ELSE {ConnectEnds(c, "ok")}

\* line 380: the upsert; a row of the same (user_id, google_account_id) is
\* merged, or rejected by the UNIQUE constraint, the upsert naming no
\* conflict target
ConnectStore ==
    /\ conn.pc = "store"
    /\ \/ /\ conn.id \notin Connected
          /\ accounts' = [a \in Connected \cup {conn.id} |->
                            IF a = conn.id THEN InsertedRow(conn) ELSE accounts[a]]
          /\ conn' \in AfterStore(conn)
       \/ /\ conn.id \in Connected
          /\ accounts' = [accounts EXCEPT ![conn.id] = MergedRow(@, conn)]
          /\ conn' \in AfterStore(conn)
       \/ /\ conn.id \in Connected
          /\ UNCHANGED accounts
          /\ conn' = ConnectEnds(conn, "threw")
    /\ UNCHANGED <<nodes, nodes0, nextId, now, mv, faults, called, batch, sel, auto, cache,
                   sp, perms, tk, rp, dt, au>>

\* findExistingSharedFolder, lines 641-667: the folders of the backup account
\* named after the primary on which the primary holds a writer permission
SharedFoldersOf(backupId, primaryId) ==
    {n \in nodes : /\ n.acct = backupId
                   /\ n.name = SharedName(primaryId)
                   /\ n.mimeType = FolderMime
                   /\ <<n.id, primaryId>> \in perms}

\* createSharedFolder, lines 590-595, with findExistingSharedFolder: a
\* failing search or permission request yields null (lines 648-673)
ConnectFindShared ==
    /\ conn.pc = "findShared"
    /\ \E o \in Responses(TRUE) :
         /\ faults' = Spend(o, TRUE)
         /\ LET owned == SharedFoldersOf(conn.id, conn.primary)
                found == IF o = "ok" THEN owned ELSE {}
            IN  IF found # {}
                THEN \E n \in found :
                        conn' = [conn EXCEPT !.pc = "update", !.folder = n.id,
                                            !.owned = {x.id : x \in owned}]
                ELSE conn' = [conn EXCEPT !.pc = "create",
                                         !.owned = {x.id : x \in owned}]
    /\ UNCHANGED <<nodes, nodes0, nextId, accounts, now, mv, called, batch, sel, auto, cache,
                   sp, perms, tk, rp, dt, au>>

\* createSharedFolder, lines 597-615
ConnectCreateShared ==
    /\ conn.pc = "create"
    /\ nextId <= Len(FreshIds)
    /\ \E o \in Responses(TRUE) :
         /\ faults' = Spend(o, TRUE)
         /\ IF o = "ok"
            THEN /\ nodes' = nodes \cup {Node(FreshIds[nextId], conn.id,
                                               SharedName(conn.primary), FolderMime,
                                               Undef, 0, NoParent)}
                 /\ nextId' = nextId + 1
                 /\ conn' = [conn EXCEPT !.pc = "share", !.folder = FreshIds[nextId]]
            ELSE /\ UNCHANGED <<nodes, nextId>>
                 /\ conn' = ConnectEnds(conn, "threw")
    /\ UNCHANGED <<nodes0, accounts, now, mv, called, batch, sel, auto, cache, sp, perms, tk,
                   rp, dt, au>>

\* createSharedFolder, lines 617-636
ConnectShare ==
    /\ conn.pc = "share"
    /\ \E o \in Responses(TRUE) :
         /\ faults' = Spend(o, TRUE)
         /\ IF o = "ok"
            THEN /\ perms' = perms \cup {<<conn.folder, conn.primary>>}
                 /\ conn' = [conn EXCEPT !.pc = "update"]
            ELSE /\ UNCHANGED perms
                 /\ conn' = ConnectEnds(conn, "threw")
    /\ UNCHANGED <<nodes, nodes0, nextId, accounts, now, mv, called, batch, sel, auto, cache,
                   sp, tk, rp, dt, au>>

\* updateSharedFolderId, lines 676-687 (line 388)
ConnectUpdateShared ==
    /\ conn.pc = "update"
    /\ accounts' = IF conn.id \in Connected
                   THEN [accounts EXCEPT ![conn.id].shared_folder_id = conn.folder]
                   ELSE accounts
    /\ conn' = ConnectEnds(conn, "ok")
    /\ UNCHANGED <<nodes, nodes0, nextId, now, mv, faults, called, batch, sel, auto, cache,
                   sp, perms, tk, rp, dt, au>>

\* removeAccount, lines 576-587: the row is deleted, the store is not touched
RemoveAccount(a) ==
    /\ a \in Connected
    /\ accounts' = [b \in Connected \ {a} |-> accounts[b]]
    /\ UNCHANGED <<nodes, nodes0, nextId, now, mv, faults, called, batch, sel, auto, cache,
                   acctVars>>

\* ensureValidToken(a) called by any other operation of the application
ValidateToken(a) ==
    /\ a \in Connected
    /\ TokenReturns(a) \/ TokenThrows(a)
    /\ UNCHANGED <<nodes, nodes0, nextId, now, mv, batch, sel, auto, cache, acctVars>>

\* setPrimaryAccount, lines 693-696: every row of the user is made backup;
\* the result of this update is not looked at
SetPrimaryDemote(p, accountId) ==
    /\ sp[p].pc = "idle"
    /\ sp[p].calls < MaxSetPrimary
    /\ \E o \in Responses(TRUE) :
         /\ faults' = Spend(o, TRUE)
         /\ accounts' = IF o = "ok"
                        THEN [a \in Connected |-> [accounts[a] EXCEPT !.account_type = "backup"]]
                        ELSE accounts
    /\ sp' = [sp EXCEPT ![p] = [@ EXCEPT !.pc = "demoted", !.accountId = accountId]]
    /\ UNCHANGED <<nodes, nodes0, nextId, now, mv, called, batch, sel, auto, cache,
                   conn, perms, tk, rp, dt, au>>

\* setPrimaryAccount, lines 698-704: the named row is made primary
SetPrimaryPromote(p) ==
    /\ sp[p].pc = "demoted"
    /\ \E o \in Responses(TRUE) :
         /\ faults' = Spend(o, TRUE)
         /\ accounts' = IF o = "ok" /\ sp[p].accountId \in Connected
                        THEN [accounts EXCEPT ![sp[p].accountId].account_type = "primary"]
                        ELSE accounts
         /\ sp' = [sp EXCEPT ![p] = [@ EXCEPT !.pc = "idle", !.calls = @ + 1,
                                               !.outcome = IF o = "ok" THEN "ok"
                                                           ELSE "threw"]]
    /\ UNCHANGED <<nodes, nodes0, nextId, now, mv, called, batch, sel, auto, cache,
                   conn, perms, tk, rp, dt, au>>

NextAccounts ==
    \/ \E g \in ConnectIds : ConnectExchange(g)
    \/ ConnectStorage
    \/ ConnectReadExisting
    \/ ConnectValidate
    \/ ConnectStore
    \/ ConnectFindShared
    \/ ConnectCreateShared
    \/ ConnectShare
    \/ ConnectUpdateShared
    \/ \E a \in ConnectIds : RemoveAccount(a)
    \/ \E a \in ConnectIds : ValidateToken(a)
    \/ Tick
    \/ \E a \in ConnectIds : SetPrimaryDemote(1, a)
    \/ SetPrimaryPromote(1)

SpecAccounts == InitAccounts /\ [][NextAccounts]_vars

\* the rows with role primary
PrimaryRows == {a \in DOMAIN accounts : accounts[a].account_type = "primary"}

\* C15: in every state reached by connects, reconnects, removals, token
\* status changes and setPrimaryAccount calls, in any interleaving, at most
\* one of the user's account rows has role primary.
C15_AtMostOnePrimary == Cardinality(PrimaryRows) <= 1

\* the step of ConnectStore by which the connecting account's row is written
RowStored ==
    /\ conn.pc = "store"
    /\ conn'.pc # "store"
    /\ ~(conn'.pc = "idle" /\ conn'.outcome = "threw")

\* C16: when a connect stores its row, the row gets role primary if the user
\* had no account row before, and role backup if the user already had a row
\* of another account.
C16_FirstPrimaryThenBackup ==
    [][RowStored =>
         /\ Connected = {} => accounts'[conn.id].account_type = "primary"
         /\ Connected \ {conn.id} # {} => accounts'[conn.id].account_type = "backup"]_vars

\* C17: no account of the user holds two shared folders for the same
\* primary, and a connect of an account that already holds one returns that
\* folder's id and creates nothing.
C17_SharedFolderReused ==
    /\ [](\A b, pr \in ConnectIds : Cardinality(SharedFoldersOf(b, pr)) <= 1)
    /\ [][(conn.pc = "findShared" /\ conn'.pc # "findShared"
              /\ SharedFoldersOf(conn.id, conn.primary) # {})
            => /\ conn'.pc = "update"
               /\ conn'.folder \in {n.id : n \in SharedFoldersOf(conn.id, conn.primary)}]_vars

\* ------------------------------------- credential failures inside a move
\* the account whose token caller p's move is about to validate
Validated(p) == IF mv[p].pc = "tokTgt" THEN mv[p].tgt ELSE mv[p].src

\* the step in which caller p's move fails on a credential
CredentialFailure(p) == mv[p].err = "none" /\ mv'[p].err = "credential"

BoundaryExpiries ==
    {0, FiveMinutes - 1, FiveMinutes, FiveMinutes + 1, RefreshLifetime}

InitToken ==
    /\ InitCommon
    /\ nodes = {}
    /\ nodes0 = nodes
    /\ \E e1, e2 \in BoundaryExpiries :
         accounts = [a \in ConnectIds |->
            IF a = "P" THEN Account("primary", "active", 2, 1, NullId, e1)
            ELSE Account("backup", "active", 2, 1, "R", e2)]

\* what ensureValidToken(a) hands back: the refreshed token of lines 556-559
\* or the stored one of line 573, with the expiry that token carries
ReturnedToken(a) ==
    IF isTokenExpired(accounts[a].token_expires_at)
    THEN [pc |-> "returned", acct |-> a, kind |-> "refreshed",
          exp |-> now + RefreshLifetime, calls |-> tk.calls + 1]
    ELSE [pc |-> "returned", acct |-> a, kind |-> "stored",
          exp |-> accounts[a].token_expires_at, calls |-> tk.calls + 1]

\* one call ensureValidToken(a), lines 540-574
CallEnsureValidToken(a) ==
    /\ tk.calls < MaxCalls
    /\ \/ TokenReturns(a) /\ tk' = ReturnedToken(a)
       \/ TokenThrows(a) /\ tk' = [pc |-> "threw", acct |-> a, kind |-> "none",
                                   exp |-> 0, calls |-> tk.calls + 1]
    /\ UNCHANGED <<nodes, nodes0, nextId, now, mv, batch, sel, auto, cache,
                   conn, sp, perms, rp, dt, au>>

NextToken ==
    \/ \E a \in ConnectIds : CallEnsureValidToken(a)
    \/ Tick

SpecToken == InitToken /\ [][NextToken]_vars

\* C19: every token ensureValidToken returns expires more than five minutes
\* after the call and is the token the account record holds: either the
\* stored token, returned untouched and without a refresh only when its expiry
\* lies more than five minutes ahead, or a token refreshed in this call because
\* the stored one was at or within five minutes of expiry, written to the
\* record before the return.
C19_ReturnedTokenIsValid ==
    [][(tk'.calls = tk.calls + 1 /\ tk'.pc = "returned") =>
        LET a == tk'.acct
            stored == accounts[a].token_expires_at
        IN  /\ tk'.exp > now + FiveMinutes
            /\ tk'.exp = accounts'[a].token_expires_at
            /\ \/ /\ tk'.kind = "stored"
                  /\ stored > now + FiveMinutes
                  /\ accounts' = accounts /\ called' = called
               \/ /\ tk'.kind = "refreshed"
                  /\ stored <= now + FiveMinutes
                  /\ tk'.exp = now + RefreshLifetime
                  /\ "refresh" \in called']_vars

\* the first call found the primary's stored token at or within five minutes
\* of expiry and returned a refreshed token that the record now holds
C19_Witness ==
    /\ tk.pc = "returned" /\ tk.kind = "refreshed" /\ tk.acct = "P"
    /\ now = 0 /\ tk.calls = 1
    /\ accounts["P"].token_expires_at = tk.exp

\* ------------------------------------- folder-create and transfers by name
\* folder-create submissions made in one scenario
MaxCreates == 2

\* the names typed into the folder-create dialog
FolderNames == {"Docs", "docs"}

\* String.prototype.toLowerCase on the names of the scenarios
Lower(name) ==
    CASE name = "Docs" -> "docs"
      [] name = "Sub" -> "sub"
      [] name = "DriveVault" -> "drivevault"
      [] name = "My Drive" -> "my drive"
      [] name = Untitled -> "untitled"
      [] OTHER -> name

\* a file named like the source's folder, and a folder named like it but
\* for case, inside the backup's shared folder
TargetDocsFile == Node("t4", "B1", "Docs", TextMime, "bytesDocs", 1, "R")
TargetLower == Node("t5", "B1", "docs", FolderMime, Undef, 0, "R")
NameTrees == {{}, {TargetDocs}, {TargetDocsFile}, {TargetLower}}

InitNames ==
    /\ InitCommon
    /\ \E fp \in SourceFolders, tree \in NameTrees :
         nodes = {SourceRoot, SourceDocs, SourceSub, FileA(fp), SharedRoot} \cup tree
    /\ nodes0 = nodes
    /\ accounts = [a \in AccountIds |->
            IF a = "P" THEN Account("primary", "active", 2, 1, NullId, RefreshLifetime)
            ELSE IF a = "B1" THEN Account("backup", "active", 2, 1, "R", RefreshLifetime)
            ELSE Account("backup", "active", 2, 1, "R2", RefreshLifetime)]

\* getFiles(acct) as DriveTree loads it: the direct children of the shared
\* folder for a backup account, every node below the root for the primary
Listing(acct) ==
    LET row == accounts[acct]
    IN  IF row.account_type = "backup" /\ row.shared_folder_id # NullId
        THEN {n \in nodes : n.parent = row.shared_folder_id}
        ELSE {n \in nodes : n.acct = acct /\ n.parent # NoParent}

\* buildFileTree: the nodes whose parent is not in the listing are the roots
RootNodes(listing) ==
    {n \in listing : n.parent \notin {m.id : m \in listing}}

\* handleCreateFolder lines 144-145: the children of the chosen node, the
\* root nodes when no node was chosen
Siblings(acct, createParentId) ==
    IF createParentId = NullId
    THEN RootNodes(Listing(acct))
    ELSE {n \in Listing(acct) : n.parent = createParentId}

\* lines 146-148
isDuplicate(siblings, newFolderName) ==
    \E child \in siblings : Lower(child.name) = Lower(newFolderName)

\* createFolder lines 189-202: the parent the new folder gets
CreateParent(acct, parentFolderId) ==
    IF parentFolderId # NullId THEN parentFolderId
    ELSE IF accounts[acct].account_type = "backup"
            /\ accounts[acct].shared_folder_id # NullId
         THEN accounts[acct].shared_folder_id
         ELSE (CHOOSE n \in nodes : n.acct = acct /\ n.parent = NoParent).id

\* the folders of the tree of acct on which the create dialog can be opened
TreeFolders(acct) == {n.id : n \in {m \in Listing(acct) : m.mimeType = FolderMime}}

\* DriveTree.handleCreateFolder for the tree of acct, with tokens that are
\* not about to expire: the duplicate test against the loaded tree, then
\* createFolder, whose failure ends in the "Failed to create folder" toast
HandleCreateFolder(acct, newFolderName, createParentId) ==
    LET id == FreshIds[nextId]
        parent == CreateParent(acct, createParentId)
    IN  /\ dt.creates < MaxCreates
        /\ nextId <= Len(FreshIds)
        /\ mv[1].pc = "idle"
        /\ ~isTokenExpired(accounts[acct].token_expires_at)
        /\ IF isDuplicate(Siblings(acct, createParentId), newFolderName)
           THEN /\ dt' = [creates |-> dt.creates + 1, outcome |-> "duplicate"]
                /\ UNCHANGED <<nodes, nextId, faults, called>>
           ELSE \E o \in Responses(TRUE) :
                /\ faults' = Spend(o, TRUE)
                /\ called' = called \cup {"createFolder"}
                /\ IF o = "ok"
                   THEN /\ nodes' = nodes \cup {Node(id, acct, newFolderName, FolderMime,
                                                     Undef, 0, parent)}
                        /\ nextId' = nextId + 1
                        /\ dt' = [creates |-> dt.creates + 1, outcome |-> "created"]
                   ELSE /\ UNCHANGED <<nodes, nextId>>
                        /\ dt' = [creates |-> dt.creates + 1, outcome |-> "failed"]
        /\ UNCHANGED <<nodes0, accounts, now, mv, batch, sel, auto, cache,
                       conn, sp, perms, tk, rp, au>>

\* FileExplorer.handleFileMove: the move has returned or thrown, the toast is
\* shown and the next action can start
MoveReturns(p) ==
    /\ Finished(p)
    /\ mv' = [mv EXCEPT ![p] = IdleMove]
    /\ UNCHANGED <<nodes, nodes0, nextId, accounts, now, faults, called, batch, sel, auto,
                   cache, acctVars>>

\* the file of the primary that the scenarios transfer
TransferCall ==
    /\ \E n \in nodes : n.id = "f1" /\ n.acct = "P"
    /\ \E mp \in BOOLEAN : CallMoveFile(1, "f1", "P", "B1", "R", mp)

NextNames ==
    \/ \E acct \in ConnectIds, name \in FolderNames :
         \E parent \in {NullId} \cup TreeFolders(acct) :
            HandleCreateFolder(acct, name, parent)
    \/ TransferCall
    \/ MoveStep(1)
    \/ MoveReturns(1)

SpecNames == InitNames /\ [][NextNames]_vars

\* two nodes of one parent whose names are equal ignoring case
SameNameSiblings(n1, n2) ==
    /\ n1.id # n2.id
    /\ n1.parent = n2.parent /\ n1.parent # NoParent
    /\ Lower(n1.name) = Lower(n2.name)

\* C20: after any sequence of folder-create actions and transfers, no parent
\* folder contains two child nodes whose names are equal ignoring case.
C20_UniqueNamesInParent ==
    \A n1, n2 \in nodes : ~SameNameSiblings(n1, n2)

\* --------------------------------------- two independent moveFile calls
\* where the first file lies: next to the second one or in the root
RaceParents == {"d1", RootId}

InitRace ==
    /\ InitCommon
    /\ \E fp \in RaceParents, tree \in {{}, {TargetDocs}} :
         nodes = InitNodes(fp, tree)
    /\ nodes0 = nodes
    /\ accounts = [a \in AccountIds |->
            IF a = "P" THEN Account("primary", "active", 2, 1, NullId, RefreshLifetime)
            ELSE IF a = "B1" THEN Account("backup", "active", 2, 1, "R", RefreshLifetime)
            ELSE Account("backup", "active", 2, 1, "R2", RefreshLifetime)]

\* the file each of the two handleFileMove invocations was started for:
\* both are named a.txt
RaceFile(p) == IF p = 1 THEN "f1" ELSE "f3"

\* two drops handled by FileExplorer.handleFileMove, neither awaiting the
\* other: the steps of the two moves interleave at every await
NextRace ==
    \/ \E p \in Procs, mp \in BOOLEAN : CallMoveFile(p, RaceFile(p), "P", "B1", "R", mp)
    \/ \E p \in Procs : MoveStep(p)

SpecRace == InitRace /\ [][NextRace]_vars

\* caller p's collision check finds no node of the name and lets it upload
PassesCheck(p) == MoveEnsureUnique(p) /\ mv'[p].pc = "upload"

\* both callers uploaded the same name into the same folder
BothUploaded ==
    /\ mv[1].uploaded # Undef /\ mv[2].uploaded # Undef
    /\ mv[1].final = mv[2].final /\ mv[1].name = mv[2].name

\* C21: nothing excludes two independent moves from each other. A caller at
\* its collision check whose destination folder holds no node of the name can
\* pass it whatever the position of the other caller (also when the other has
\* passed the check for the same name and folder and not uploaded yet), and
\* when both have uploaded the same name into the same folder the folder holds
\* two distinct nodes of that name.
C21_ConcurrentMovesDuplicate ==
    /\ \A p \in Procs :
         (mv[p].pc = "unique" /\ Readable(mv[p].final, mv[p].tgt)
            /\ QueryByName(mv[p].name, mv[p].final) = {})
         => ENABLED PassesCheck(p)
    /\ BothUploaded =>
         /\ mv[1].uploaded # mv[2].uploaded
         /\ \A p \in Procs : \E n \in nodes :
              /\ n.id = mv[p].uploaded /\ n.parent = mv[p].final
              /\ n.name = StoredName(mv[p].name)

\* two moves without a failing call both passed the check, both uploaded and
\* both ended: the shared folder holds two nodes named a.txt
C21_Witness ==
    /\ \A p \in Procs : mv[p].pc = "done" /\ mv[p].failedAt = {}
    /\ BothUploaded /\ mv[1].final = "R" /\ faults = 0
    /\ Cardinality({n \in nodes : n.parent = "R" /\ n.name = "a.txt"}) = 2

\* ------------------------------------------- failures of the path resolution
\* the calls of the Path Recreator: ancestor fetch, child lookup, folder create
ResolutionSteps == {"walk", "find", "create"}

\* C22: when an ancestor metadata fetch, a child-folder lookup or a
\* folder-create call of the path resolution was answered with a failure, the
\* move has failed and has made neither the upload nor the source delete.
C22_ResolutionFailureAborts ==
    (mv[1].failedAt \cap ResolutionSteps # {}) =>
        /\ mv[1].pc = "failed"
        /\ mv[1].uploaded = Undef
        /\ called \cap {"upload", "delete"} = {}

\* ---------------------------------------------- direct and path-keeping moves
\* the move was called with maintainPath false or for a file without parent
DirectMove(p) == ~mv[p].maintainPath \/ Original(p).parent = NoParent

FoldersOf(ns) == {n \in ns : n.mimeType = FolderMime}

\* C23: a move with maintainPath false, or of a file without parent, makes
\* no call of the Path Recreator, creates no folder and uploads into the given
\* targetFolderId; the Path Recreator runs only for maintainPath true and a
\* file with a parent, starting at the file's parent in the source and at
\* targetFolderId in the target.
C23_PathRecreatorOnlyWhenAsked ==
    /\ []((mv[1].pc # "idle" /\ DirectMove(1)) =>
            /\ called \cap ResolutionSteps = {}
            /\ FoldersOf(nodes) \subseteq nodes0
            /\ mv[1].uploaded # Undef =>
                 \E n \in nodes : n.id = mv[1].uploaded
                                  /\ n.parent = mv[1].targetFolderId)
    /\ []((mv[1].pc \in ResolutionSteps) =>
            (mv[1].maintainPath /\ Original(1).parent # NoParent))
    /\ [][(mv[1].pc = "download" /\ mv'[1].pc = "walk") =>
            mv'[1].cur = Original(1).parent]_vars
    /\ [][(mv[1].pc = "walk" /\ mv'[1].pc = "find") =>
            mv'[1].curT = mv[1].targetFolderId]_vars

\* a file without parent moved with maintainPath true went straight into
\* the given folder
C23_Witness ==
    /\ mv[1].pc = "done" /\ mv[1].maintainPath /\ CleanRun(1)
    /\ Original(1).parent = NoParent
    /\ \E n \in nodes : n.id = mv[1].uploaded /\ n.parent = "R"

\* ------------------------------------------------- movePhotoWithMetadata
\* the view layer calls movePhotoWithMetadata (part_007 line 360)
CallMovePhoto(p, photoId, src, tgt, folderId, maintainPath) ==
    /\ mv[p].pc = "idle"
    /\ mv' = [mv EXCEPT ![p] = [IdleMove EXCEPT !.pc = "tokSrc", !.fileId = photoId,
                                   !.src = src, !.tgt = tgt,
                                   !.targetFolderId = folderId,
                                   !.maintainPath = maintainPath,
                                   !.photo = TRUE]]
    /\ nodes0' = nodes
    /\ UNCHANGED <<nodes, nextId, accounts, now, faults, called, batch, sel, auto, cache,
                   acctVars>>

\* shareFileToPrimary, line 434
MoveShareToken(p) ==
    /\ mv[p].pc = "shareTok"
    /\ EnsureValidToken(p, mv[p].tgt, [mv[p] EXCEPT !.pc = "share"], "refreshShare")
    /\ UNCHANGED <<nodes, nodes0, nextId, now, batch, sel, auto, cache, acctVars>>

\* shareFileToPrimary, lines 446-461, called with photoId (line 427): the
\* reader permission is requested on the node of that id with the backup's
\* token; a refused request is logged and the move goes on
MoveShare(p) ==
    LET m == mv[p]
        valid == Readable(m.fileId, m.tgt)
    IN  /\ m.pc = "share"
        /\ \E o \in Responses(valid) :
            /\ faults' = Spend(o, valid)
            /\ IF o = "reject"
               THEN /\ mv' = [mv EXCEPT ![p] = Throw(Failed(m, "share"), "error")]
                    /\ UNCHANGED perms
               ELSE /\ mv' = [mv EXCEPT ![p] =
                                [(IF o = "ok" THEN m ELSE Failed(m, "share"))
                                   EXCEPT !.pc = "delTok"]]
                    /\ perms' = IF o = "ok" THEN perms \cup {<<m.fileId, m.src>>}
                                ELSE perms
        /\ called' = called \cup {"share"}
        /\ UNCHANGED <<nodes, nodes0, nextId, accounts, now, batch, sel, auto, cache,
                       conn, sp, tk, rp, dt, au>>

PhotoStep(p) ==
    \/ MoveStep(p)
    \/ MoveShareToken(p)
    \/ MoveShare(p)

NextPhoto ==
    \/ \E mp \in BOOLEAN : CallMovePhoto(1, "f1", "P", "B1", "R", mp)
    \/ PhotoStep(1)
    \/ Tick

SpecPhoto == InitMove /\ [][NextPhoto]_vars

\* caller p's photo move is past its share step
PastShare(p) == mv[p].photo /\ mv[p].pc \in {"delTok", "delete", "done"}

\* C24: once the photo move has uploaded and is past its share step (about
\* to delete the source, or done), the owner of the source account holds a
\* read permission on the node the upload created.
C24_UploadedPhotoSharedBack ==
    PastShare(1) => <<mv[1].uploaded, mv[1].src>> \in perms

\* ------------------------------------------------------- the ancestor walk
\* fetches one walk is followed for
MaxDepth == 4

\* two folders of the primary whose parent links point at each other
LoopA == Node("c1", "P", "Loop", FolderMime, Undef, 0, "c2")
LoopB == Node("c2", "P", "Back", FolderMime, Undef, 0, "c1")
InCycle(id) == id \in {"c1", "c2"}

InitWalk ==
    /\ InitCommon
    /\ \E tree \in TargetTrees, rid \in RootIds :
         nodes = RootedAt(InitNodes("d1", tree), rid) \cup {LoopA, LoopB}
    /\ nodes0 = nodes
    /\ accounts = [a \in AccountIds |->
          IF a = "P" THEN Account("primary", "active", 2, 1, NullId, RefreshLifetime)
          ELSE IF a = "B1" THEN Account("backup", "active", 2, 1, "R", RefreshLifetime)
          ELSE Account("backup", "active", 2, 1, "R2", RefreshLifetime)]

\* getFolderPath alone: recreateFolderPath calls it first (line 473) and the
\* walk is followed until it returns, throws, or has made MaxDepth fetches
NextWalk ==
    \/ \E f \in SourceFolders \cup {"c1"} : CallRecreate(f)
    \/ Len(mv[1].path) < MaxDepth /\ MoveWalk(1)

SpecWalk == InitWalk /\ [][NextWalk]_vars

\* the names, root to leaf, of the folders from folder id up to the first
\* folder whose parent is absent or is the root sentinel
RECURSIVE VisitedNames(_)
VisitedNames(id) ==
    LET n == CHOOSE x \in nodes0 : x.id = id
    IN  IF WalkStops(n.parent) THEN <<n.name>>
        ELSE VisitedNames(n.parent) \o <<n.name>>

\* C25: on an acyclic hierarchy the walk returns the names of exactly the
\* folders it visited, from the first folder whose parent is absent or is the
\* root sentinel down to the folder it started at; on a hierarchy whose parent
\* links form a cycle it never ends.
C25_WalkReturnsVisitedChain ==
    /\ (mv[1].pc = "find" /\ ~InCycle(rp.src)) => mv[1].path = VisitedNames(rp.src)
    /\ (rp.calls > 0 /\ InCycle(rp.src)) => mv[1].pc = "walk"

\* ------------------------------------ the candidates of selectBestBackupAccount
\* the accounts the selection may return
Eligible == {a \in ActiveBackups : Free(a) > 0}

\* C26: selectBestBackupAccount returns only an account with role backup,
\* status active and positive free space, and it throws, returning no
\* account, exactly when the user has no such account.
C26_OnlyActiveBackupsWithSpace ==
    /\ sel.pc = "returned" =>
         /\ accounts[sel.result].account_type = "backup"
         /\ accounts[sel.result].status = "active"
         /\ Free(sel.result) > 0
    /\ sel.pc = "threw" => (Eligible = {} /\ sel.result = NullId)
    /\ sel.returned \subseteq Eligible

\* the call threw although the primary has free space, one backup is active
\* but full and the other has free space but is expired
C26_Witness ==
    /\ sel.pc = "threw"
    /\ Free("P") > 0
    /\ accounts["B1"].status = "active" /\ Free("B1") <= 0
    /\ accounts["B2"].status = "expired" /\ Free("B2") > 0

\* -------------------------------------- the outcome shown after a batch
\* LargestFilesView.handleTransferFiles once moveFilesInBatch has returned
\* (Header.tsx lines 190-193): the toast counts the selected files
TransferReported ==
    /\ batch.pc = "done"
    /\ batch' = [batch EXCEPT !.pc = "reported",
                              !.toast = [title |-> "Success", count |-> batch.total]]
    /\ UNCHANGED <<nodes, nodes0, nextId, accounts, now, mv, faults, called, sel, auto,
                   cache, acctVars>>

NextTransfer ==
    \/ NextBatch
    \/ TransferReported

SpecTransfer == InitBatch /\ [][NextTransfer]_vars

\* a file of the batch was not moved
SomeFileFailed == \E j \in 1..Len(batch.results) : batch.results[j] # "ok"

\* C27: the outcome shown for a batch in which a file failed is not the
\* outcome shown for a batch that moved every file (the success toast
\* counting all the files).
C27_FailuresReported ==
    (batch.pc = "reported" /\ SomeFileFailed)
        => batch.toast # [title |-> "Success", count |-> batch.total]

\* ------------------------------------------------------ setPrimaryAccount
\* three connected accounts, the oldest one primary
InitPrimary ==
    /\ InitCommon
    /\ nodes = {}
    /\ nodes0 = nodes
    /\ accounts = [a \in AccountIds |->
          IF a = "P" THEN Account("primary", "active", 2, 1, NullId, RefreshLifetime)
          ELSE IF a = "B1" THEN Account("backup", "active", 2, 1, "R", RefreshLifetime)
          ELSE Account("backup", "active", 2, 1, "R2", RefreshLifetime)]

\* setPrimaryAccount called from two places of the application, each call
\* made of its two awaited updates
NextPrimary ==
    \/ \E p \in Procs, a \in AccountIds : SetPrimaryDemote(p, a)
    \/ \E p \in Procs : SetPrimaryPromote(p)

SpecPrimary == InitPrimary /\ [][NextPrimary]_vars

\* caller p's setPrimaryAccount returns without error in this step
SetPrimaryCompletes(p) ==
    sp[p].pc = "demoted" /\ sp'[p].pc = "idle" /\ sp'[p].outcome = "ok"

\* C28: when setPrimaryAccount(accountId) completes without error, exactly
\* that account has role primary and every other account has role backup;
\* and whatever fails or interleaves between the two updates, the user never
\* has two primary accounts.
C28_SetPrimaryExactlyOne ==
    /\ [][\A p \in Procs :
            SetPrimaryCompletes(p) =>
              {a \in AccountIds : accounts'[a].account_type = "primary"}
                 = {sp[p].accountId}]_vars
    /\ [](Cardinality(PrimaryRows) <= 1)

\* --------------------------------------------- accounts after a failed refresh
InitExpiry ==
    /\ InitCommon
    /\ nodes = {}
    /\ nodes0 = nodes
    /\ \E e1, e2 \in TokenExpiries :
         accounts = [a \in AccountIds |->
            IF a = "P" THEN Account("primary", "active", 2, 1, NullId, RefreshLifetime)
            ELSE IF a = "B1" THEN Account("backup", "active", 2, 0, "R", e1)
            ELSE Account("backup", "active", 2, 1, "R2", e2)]

\* a call of getConnectedAccounts on its own, lines 450-470: the active
\* rows are read
GetAccountsRead ==
    /\ conn.pc = "idle"
    /\ conn.connects < MaxConnects
    /\ LET existing == {<<a, accounts[a].account_type>> : a \in ActiveRows}
       IN  conn' = [conn EXCEPT
                      !.existing = existing,
                      !.todo = SelectSeq(AccountOrder, LAMBDA a : a \in ActiveRows),
                      !.pc = IF existing = {} THEN "listed" ELSE "listValidate"]
    /\ UNCHANGED <<nodes, nodes0, nextId, accounts, now, mv, faults, called, batch, sel, auto,
                   cache, sp, perms, tk, rp, dt, au>>

\* lines 473-480: ensureValidToken for the next account of the list; a throw
\* is caught and logged, the account stays in the list
GetAccountsValidate ==
    /\ conn.pc = "listValidate"
    /\ LET a == Head(conn.todo)
       IN  TokenReturns(a) \/ TokenThrows(a)
    /\ conn' = [conn EXCEPT !.todo = Tail(@),
                            !.pc = IF Len(conn.todo) = 1 THEN "listed" ELSE "listValidate"]
    /\ UNCHANGED <<nodes, nodes0, nextId, now, mv, batch, sel, auto, cache, sp, perms, tk,
                   rp, dt, au>>

\* line 482: the list is returned to the caller
GetAccountsReturns ==
    /\ conn.pc = "listed"
    /\ conn' = [IdleConn EXCEPT !.connects = conn.connects + 1]
    /\ UNCHANGED <<nodes, nodes0, nextId, accounts, now, mv, faults, called, batch, sel, auto,
                   cache, sp, perms, tk, rp, dt, au>>

NextExpiry ==
    \/ \E a \in AccountIds : ValidateToken(a)
    \/ Tick
    \/ GetAccountsRead
    \/ GetAccountsValidate
    \/ GetAccountsReturns
    \/ SelectBestThrows
    \/ \E i \in 1..Len(AccountOrder) : SelectBestReturns(i)

SpecExpiry == InitExpiry /\ [][NextExpiry]_vars

\* the accounts a refresh has failed for
Expired == {a \in AccountIds : accounts[a].status = "expired"}

\* a refresh fails in this step
RefreshFails == faults' = faults + 1

\* the step that marks exactly account a expired
MarksExpired(a) == accounts' = [accounts EXCEPT ![a].status = "expired"]

InitPopup ==
    /\ InitCommon
    /\ nodes = {}
    /\ nodes0 = {}
    /\ \E first \in BOOLEAN :
         accounts = IF first
                    THEN [a \in {} |-> Account("backup", "active", 0, 0, NullId, 0)]
                    ELSE [a \in {"P"} |->
                            Account("primary", "active", 2, 1, NullId, RefreshLifetime)]

\* resolve and reject of the promise made at line 283: the first call settles
\* it, a later call changes nothing
Settle(a, outcome) ==
    IF a.settled = "pending" THEN [a EXCEPT !.settled = outcome] ELSE a

\* the frame of the steps that touch only the popup and the promise
PopupFrame ==
    UNCHANGED <<nodes, nodes0, nextId, accounts, now, mv, faults, called, batch, sel, auto,
                cache, conn, sp, perms, tk, rp, dt>>

\* connectAccount, lines 258-289 and 313: the popup is opened, the promise is
\* made, the polling timer is started and the message listener is added
CallConnectAccount ==
    /\ au.pc = "idle"
    /\ au' = [au EXCEPT !.pc = "waiting", !.popup = "open", !.interval = TRUE,
                        !.listener = TRUE, !.rows = accounts]
    /\ PopupFrame

\* AuthCallback in the popup: the result of the consent screen is posted to
\* the opener and the popup closes itself
PopupRedirects(type) ==
    /\ au.popup = "open"
    /\ au' = [au EXCEPT !.inbox = type, !.popup = "closed"]
    /\ PopupFrame

\* the user closes the popup before the consent screen has redirected
UserClosesPopup ==
    /\ au.popup = "open"
    /\ au' = [au EXCEPT !.popup = "closed"]
    /\ PopupFrame

\* the polling timer, lines 284-289: a tick that sees the popup closed stops
\* the timer and rejects; the message listener stays registered
CheckClosed ==
    /\ au.interval
    /\ au.popup = "closed"
    /\ au' = Settle([au EXCEPT !.interval = FALSE], "cancelled")
    /\ PopupFrame

\* messageListener, lines 292-311, up to its first await: the timer is
\* stopped, the listener removed, and either exchangeCodeForTokens is called
\* or the promise is rejected with the error of the popup
MessageListener ==
    /\ au.listener
    /\ au.inbox # "none"
    /\ LET heard == [au EXCEPT !.interval = FALSE, !.listener = FALSE,
                               !.popup = "closed", !.inbox = "none"]
       IN  au' = IF au.inbox = "GOOGLE_AUTH_SUCCESS"
                 THEN [heard EXCEPT !.exchange = "called"]
                 ELSE Settle(heard, "rejected")
    /\ PopupFrame

\* exchangeCodeForTokens called by the listener, lines 326-357: the code is
\* exchanged and the profile read (as ConnectExchange); a failure is thrown
\* to the listener, which rejects (lines 305-307)
AuthExchange(g) ==
    /\ au.exchange = "called"
    /\ conn.pc = "idle"
    /\ \E o \in Responses(TRUE) :
         /\ faults' = Spend(o, TRUE)
         /\ conn' = IF o = "ok" THEN [conn EXCEPT !.pc = "storage", !.id = g] ELSE conn
         /\ au' = IF o = "ok" THEN [au EXCEPT !.exchange = "running"]
                  ELSE Settle([au EXCEPT !.exchange = "done"], "rejected")
    /\ UNCHANGED <<nodes, nodes0, nextId, accounts, now, mv, called, batch, sel, auto, cache,
                   sp, perms, tk, rp, dt>>

\* messageListener, lines 302-307: exchangeCodeForTokens has returned the
\* account or thrown, and the listener resolves or rejects
AuthSettles ==
    /\ au.exchange = "running"
    /\ conn.pc = "idle"
    /\ au' = Settle([au EXCEPT !.exchange = "done"],
                    IF conn.outcome = "ok" THEN "resolved" ELSE "rejected")
    /\ PopupFrame

NextPopup ==
    \/ CallConnectAccount
    \/ \E type \in {"GOOGLE_AUTH_SUCCESS", "GOOGLE_AUTH_ERROR"} : PopupRedirects(type)
    \/ UserClosesPopup
    \/ CheckClosed
    \/ MessageListener
    \/ \E g \in ConnectIds : AuthExchange(g)
    \/ ConnectStorage
    \/ ConnectReadExisting
    \/ ConnectValidate
    \/ ConnectStore
    \/ ConnectFindShared
    \/ ConnectCreateShared
    \/ ConnectShare
    \/ ConnectUpdateShared
    \/ AuthSettles

SpecPopup == InitPopup /\ [][NextPopup]_vars

\* C30: a connectAccount attempt settles once, and an attempt rejected with
\* 'Authorization cancelled' has called no token exchange and has left the
\* account rows as they were at the call, whatever the order of the timer
\* tick that sees the popup closed and the popup's GOOGLE_AUTH_SUCCESS message
C30_CancelledAttemptStoresNothing ==
    /\ [][au.settled # "pending" => au'.settled = au.settled]_vars
    /\ [](au.settled = "cancelled" => (au.exchange = "none" /\ accounts = au.rows))

====
